---- MODULE Spec2Model ----
(***************************************************************************)
(* Model of the validation core of dot-organize: normalization predicates, *)
(* the expression validator, the registry deriver, the rule set and the    *)
(* validate_manifest orchestrator.                                         *)
(*                                                                         *)
(* A Python str is a sequence of one-character strings, so that regular    *)
(* expressions, str.strip, str.startswith and the code-point comparison    *)
(* used by list.sort are computed character by character.  A value that    *)
(* may be None is a sequence of length 0 (None) or 1 (the value).          *)
(***************************************************************************)
EXTENDS Integers, Sequences, FiniteSets, TLC

(***************************************************************************)
(* Characters                                                              *)
(***************************************************************************)
LowerLetters == <<"a","b","c","d","e","f","g","h","i","j","k","l","m",
                  "n","o","p","q","r","s","t","u","v","w","x","y","z">>

UpperLetters == <<"A","B","C","D","E","F","G","H","I","J","K","L","M",
                  "N","O","P","Q","R","S","T","U","V","W","X","Y","Z">>

DigitChars == <<"0","1","2","3","4","5","6","7","8","9">>

Range(f) == {f[i] : i \in DOMAIN f}

\* The characters of the model, in code-point order.
CodePointOrder == <<"\t", "\n", " ", "'", "(", ")", "+", ",", "-", ".", "/">>
                  \o DigitChars \o <<":", "=", "@">> \o UpperLetters
                  \o <<"[", "]", "_">> \o LowerLetters \o <<"|", "~">>

Ord == [c \in Range(CodePointOrder) |->
          CHOOSE i \in DOMAIN CodePointOrder : CodePointOrder[i] = c]

Whitespace == {" ", "\t", "\n"}

WordChars == Range(LowerLetters) \cup Range(UpperLetters)
             \cup Range(DigitChars) \cup {"_"}

ToUpperChar == [c \in Range(CodePointOrder) |->
                  IF c \in Range(LowerLetters)
                  THEN UpperLetters[CHOOSE i \in DOMAIN LowerLetters : LowerLetters[i] = c]
                  ELSE c]

ToLowerChar == [c \in Range(CodePointOrder) |->
                  IF c \in Range(UpperLetters)
                  THEN LowerLetters[CHOOSE i \in DOMAIN UpperLetters : UpperLetters[i] = c]
                  ELSE c]

\* str.upper()
Upper(s) == [i \in DOMAIN s |-> ToUpperChar[s[i]]]

\* str.lower()
Lower(s) == [i \in DOMAIN s |-> ToLowerChar[s[i]]]

\* str.startswith(prefix)
StartsWith(s, prefix) ==
    /\ Len(s) >= Len(prefix)
    /\ SubSeq(s, 1, Len(prefix)) = prefix

\* "not s.strip()": every character of s is whitespace
IsBlank(s) == \A i \in DOMAIN s : s[i] \in Whitespace

\* str(n) for a non-negative int
RECURSIVE IntToStr(_)
IntToStr(n) ==
    IF n < 10 THEN <<DigitChars[n + 1]>>
    ELSE IntToStr(n \div 10) \o <<DigitChars[(n % 10) + 1]>>

\* s < t for two str values (code-point lexicographic order): decided at the
\* first position where they differ, a proper prefix being smaller
StrLess(s, t) ==
    LET n     == IF Len(s) < Len(t) THEN Len(s) ELSE Len(t)
        diffs == {i \in 1 .. n : s[i] # t[i]}
    IN  IF diffs = {} THEN Len(s) < Len(t)
        ELSE LET first == CHOOSE i \in diffs : \A k \in diffs : i <= k
             IN  Ord[s[first]] < Ord[t[first]]

(***************************************************************************)
(* Regular expressions (module re): a pattern is a tree; ReEnds gives the  *)
(* positions at which a match started at one of the positions P can end.   *)
(* Position p is the gap before character p (1 .. Len(s) + 1).             *)
(***************************************************************************)
ReSet(cs)   == [op |-> "set", chars |-> cs]
ReSeq(ps)   == [op |-> "seq", parts |-> ps]
ReStar(r)   == [op |-> "star", arg |-> r]
RePlus(r)   == [op |-> "seq", parts |-> <<r, [op |-> "star", arg |-> r]>>]
ReOpt(r)    == [op |-> "opt", arg |-> r]
ReAlt(a, b) == [op |-> "alt", left |-> a, right |-> b]
ReBol       == [op |-> "bol"]
ReEol       == [op |-> "eol"]
ReWordB     == [op |-> "wordb"]

\* a literal, each character matched as written
ReLit(s) == ReSeq([i \in DOMAIN s |-> ReSet({s[i]})])

\* a literal compiled with re.IGNORECASE
ReLitI(s) == ReSeq([i \in DOMAIN s |-> ReSet({ToUpperChar[s[i]], ToLowerChar[s[i]]})])

IsWordAt(s, p) == p >= 1 /\ p <= Len(s) /\ s[p] \in WordChars

RECURSIVE ReEnds(_, _, _)
RECURSIVE ReSeqEnds(_, _, _, _)
RECURSIVE ReStarEnds(_, _, _)

ReEnds(re, s, P) ==
    CASE re.op = "set"   -> {p + 1 : p \in {q \in P : q <= Len(s) /\ s[q] \in re.chars}}
      [] re.op = "seq"   -> ReSeqEnds(re.parts, 1, s, P)
      [] re.op = "star"  -> ReStarEnds(re.arg, s, P)
      [] re.op = "opt"   -> P \cup ReEnds(re.arg, s, P)
      [] re.op = "alt"   -> ReEnds(re.left, s, P) \cup ReEnds(re.right, s, P)
      [] re.op = "bol"   -> {p \in P : p = 1}
      \* $ without re.MULTILINE: at the end, or just before a final newline
      [] re.op = "eol"   -> {p \in P : \/ p = Len(s) + 1
                                       \/ p = Len(s) /\ s[p] = "\n"}
      [] re.op = "wordb" -> {p \in P : IsWordAt(s, p - 1) # IsWordAt(s, p)}

\* (Q is bound by a set so that the positions are computed once per step)
ReSeqEnds(parts, k, s, P) ==
    IF k > Len(parts) \/ P = {} THEN P
    ELSE UNION {ReSeqEnds(parts, k + 1, s, Q) : Q \in {ReEnds(parts[k], s, P)}}

ReStarEnds(r, s, P) ==
    UNION {IF Q = P THEN P ELSE ReStarEnds(r, s, Q) : Q \in {P \cup ReEnds(r, s, P)}}

\* pattern.match(s): a match that starts at the start of s
ReMatch(re, s) == ReEnds(re, s, {1}) # {}

\* pattern.search(s): a match that starts anywhere in s
ReSearch(re, s) == ReEnds(re, s, 1 .. (Len(s) + 1)) # {}

(***************************************************************************)
(* core/normalization.py                                                   *)
(***************************************************************************)
Lower09     == Range(LowerLetters) \cup Range(DigitChars)
Lower09Us   == Lower09 \cup {"_"}
Upper09Us   == Range(UpperLetters) \cup Range(DigitChars) \cup {"_"}

\* ^[a-z][a-z0-9_]*$
LOWER_SNAKE_CASE ==
    ReSeq(<<ReBol, ReSet(Range(LowerLetters)), ReStar(ReSet(Lower09Us)), ReEol>>)

\* ^[A-Z][A-Z0-9_]*$
UPPER_SNAKE_CASE ==
    ReSeq(<<ReBol, ReSet(Range(UpperLetters)), ReStar(ReSet(Upper09Us)), ReEol>>)

\* [a-z][a-z0-9]*(_[a-z0-9]+)*
HookNameSegment ==
    ReSeq(<<ReSet(Range(LowerLetters)), ReStar(ReSet(Lower09)),
            ReStar(ReSeq(<<ReSet({"_"}), RePlus(ReSet(Lower09))>>))>>)

\* ^_(hk|wk)__<segment>(__<segment>)?$
HOOK_NAME ==
    ReSeq(<<ReBol, ReSet({"_"}), ReAlt(ReLit(<<"h","k">>), ReLit(<<"w","k">>)),
            ReLit(<<"_","_">>), HookNameSegment,
            ReOpt(ReSeq(<<ReLit(<<"_","_">>), HookNameSegment>>)), ReEol>>)

\* ^[a-z][a-z0-9_]*\.[a-z][a-z0-9_]*$
FRAME_NAME ==
    ReSeq(<<ReBol, ReSet(Range(LowerLetters)), ReStar(ReSet(Lower09Us)),
            ReSet({"."}),
            ReSet(Range(LowerLetters)), ReStar(ReSet(Lower09Us)), ReEol>>)

\* ^\d+\.\d+\.\d+$
SEMVER ==
    ReSeq(<<ReBol, RePlus(ReSet(Range(DigitChars))), ReSet({"."}),
            RePlus(ReSet(Range(DigitChars))), ReSet({"."}),
            RePlus(ReSet(Range(DigitChars))), ReEol>>)

\* An argument of these predicates may be None: "if not s: return False".
None == <<>>
Some(x) == <<x>>
IsNone(o) == Len(o) = 0
Val(o) == o[1]
\* Python truthiness of a str-or-None value
Truthy(o) == ~IsNone(o) /\ Val(o) # <<>>

is_lower_snake_case(o) == IF ~Truthy(o) THEN FALSE ELSE ReMatch(LOWER_SNAKE_CASE, Val(o))

is_upper_snake_case(o) == IF ~Truthy(o) THEN FALSE ELSE ReMatch(UPPER_SNAKE_CASE, Val(o))

is_valid_hook_name(o) == IF ~Truthy(o) THEN FALSE ELSE ReMatch(HOOK_NAME, Val(o))

is_valid_frame_name(o) == IF ~Truthy(o) THEN FALSE ELSE ReMatch(FRAME_NAME, Val(o))

is_valid_semver(o) == IF ~Truthy(o) THEN FALSE ELSE ReMatch(SEMVER, Val(o))

(***************************************************************************)
(* String literals: the program's, and the values the inputs are built of  *)
(***************************************************************************)
RID_MANIFEST_001 == <<"M","A","N","I","F","E","S","T","-","0","0","1">>

RID_MANIFEST_002 == <<"M","A","N","I","F","E","S","T","-","0","0","2">>

RID_FRAME_001 == <<"F","R","A","M","E","-","0","0","1">>

RID_FRAME_002 == <<"F","R","A","M","E","-","0","0","2">>

RID_FRAME_003 == <<"F","R","A","M","E","-","0","0","3">>

RID_FRAME_004 == <<"F","R","A","M","E","-","0","0","4">>

RID_FRAME_005 == <<"F","R","A","M","E","-","0","0","5">>

RID_FRAME_006 == <<"F","R","A","M","E","-","0","0","6">>

RID_HOOK_001 == <<"H","O","O","K","-","0","0","1">>

RID_HOOK_002 == <<"H","O","O","K","-","0","0","2">>

RID_HOOK_003 == <<"H","O","O","K","-","0","0","3">>

RID_HOOK_004 == <<"H","O","O","K","-","0","0","4">>

RID_HOOK_005 == <<"H","O","O","K","-","0","0","5">>

RID_HOOK_006 == <<"H","O","O","K","-","0","0","6">>

RID_HOOK_007 == <<"H","O","O","K","-","0","0","7">>

RID_CONCEPT_001 == <<"C","O","N","C","E","P","T","-","0","0","1">>

RID_CONCEPT_003 == <<"C","O","N","C","E","P","T","-","0","0","3">>

RID_CONCEPT_W01 == <<"C","O","N","C","E","P","T","-","W","0","1">>

RID_HOOK_W01 == <<"H","O","O","K","-","W","0","1">>

RID_FRAME_W01 == <<"F","R","A","M","E","-","W","0","1">>

RID_FRAME_W02 == <<"F","R","A","M","E","-","W","0","2">>

RID_FRAME_W03 == <<"F","R","A","M","E","-","W","0","3">>

RID_MANIFEST_W01 == <<"M","A","N","I","F","E","S","T","-","W","0","1">>

RID_MANIFEST_W02 == <<"M","A","N","I","F","E","S","T","-","W","0","2">>

S_manifest_version == <<"m","a","n","i","f","e","s","t","_","v","e","r","s","i","o","n">>

S_schema_version == <<"s","c","h","e","m","a","_","v","e","r","s","i","o","n">>

S_metadata == <<"m","e","t","a","d","a","t","a">>

S_settings == <<"s","e","t","t","i","n","g","s">>

S_frames == <<"f","r","a","m","e","s">>

S_concepts == <<"c","o","n","c","e","p","t","s">>

S_frames_open == <<"f","r","a","m","e","s","[">>

S_concepts_open == <<"c","o","n","c","e","p","t","s","[">>

S_close == <<"]">>

S_dot_hooks == <<".","h","o","o","k","s">>

S_dot_hooks_open == <<".","h","o","o","k","s","[">>

S_dot_name == <<".","n","a","m","e">>

S_dot_source == <<".","s","o","u","r","c","e">>

S_dot_source_relation == <<".","s","o","u","r","c","e",".","r","e","l","a","t","i","o","n">>

S_dot_source_path == <<".","s","o","u","r","c","e",".","p","a","t","h">>

S_dot_role == <<".","r","o","l","e">>

S_dot_concept == <<".","c","o","n","c","e","p","t">>

S_dot_qualifier == <<".","q","u","a","l","i","f","i","e","r">>

S_dot_tenant == <<".","t","e","n","a","n","t">>

S_dot_expr == <<".","e","x","p","r">>

S_None == <<"N","o","n","e">>

S_wk_prefix == <<"_","w","k","_","_">>

S_hk_prefix == <<"_","h","k","_","_">>

S_comma_space == <<","," ">>

S_primary == <<"p","r","i","m","a","r","y">>

S_foreign == <<"f","o","r","e","i","g","n">>

KW_SELECT == <<"S","E","L","E","C","T">>

KW_FROM == <<"F","R","O","M">>

KW_JOIN == <<"J","O","I","N">>

KW_WHERE == <<"W","H","E","R","E">>

KW_GROUP == <<"G","R","O","U","P">>

KW_ORDER == <<"O","R","D","E","R">>

KW_BY == <<"B","Y">>

KW_GROUP_BY == <<"G","R","O","U","P"," ","B","Y">>

KW_ORDER_BY == <<"O","R","D","E","R"," ","B","Y">>

KW_WITH == <<"W","I","T","H">>

KW_RANDOM == <<"R","A","N","D","O","M">>

KW_NEWID == <<"N","E","W","I","D">>

KW_GETDATE == <<"G","E","T","D","A","T","E">>

KW_NOW == <<"N","O","W">>

KW_CURRENT_TIMESTAMP == <<"C","U","R","R","E","N","T","_","T","I","M","E","S","T","A","M","P">>

KW_SYSDATE == <<"S","Y","S","D","A","T","E">>

KW_INSERT == <<"I","N","S","E","R","T">>

KW_UPDATE == <<"U","P","D","A","T","E">>

KW_DELETE == <<"D","E","L","E","T","E">>

KW_CREATE == <<"C","R","E","A","T","E">>

KW_DROP == <<"D","R","O","P">>

KW_ALTER == <<"A","L","T","E","R">>

KW_TRUNCATE == <<"T","R","U","N","C","A","T","E">>

S_name == <<"n","a","m","e">>

S_role == <<"r","o","l","e">>

S_concept == <<"c","o","n","c","e","p","t">>

S_source == <<"s","o","u","r","c","e">>

S_expr == <<"e","x","p","r">>

V_1_0_0 == <<"1",".","0",".","0">>

V_1_0 == <<"1",".","0">>

V_v1_0_0 == <<"v","1",".","0",".","0">>

V_1_0_0_newline == <<"1",".","0",".","0","\n">>

N_hk_a == <<"_","h","k","_","_","a">>

N_hk_b == <<"_","h","k","_","_","b">>

N_wk_a == <<"_","w","k","_","_","a">>

N_plain_a == <<"a">>

C_a == <<"a">>

C_b == <<"b">>

C_upper_A == <<"A">>

Q_q == <<"q">>

Q_upper_Q == <<"Q">>

SRC_S == <<"S">>

SRC_lower_s == <<"s">>

T_T == <<"T">>

T_lower_t == <<"t">>

R_other == <<"o","t","h","e","r">>

E_x == <<"x">>

E_space == <<" ">>

E_select_x_from_t == <<"s","e","l","e","c","t"," ","x"," ","f","r","o","m"," ","t">>

FN_f_a == <<"f",".","a">>

FN_f_b == <<"f",".","b">>

FN_upper_F == <<"F">>

REL_r_a == <<"r",".","a">>

REL_r_b == <<"r",".","b">>

K_extra == <<"e","x","t","r","a">>

K_custom == <<"c","u","s","t","o","m">>

P_select == <<"s","e","l","e","c","t">>

P_FROM == <<"F","R","O","M">>

P_group == <<"g","r","o","u","p">>

P_by == <<"b","y">>

P_Now == <<"N","o","w">>

(***************************************************************************)
(* models/diagnostic.py                                                    *)
(* message and fix are f-strings: the template and the formatted values.   *)
(***************************************************************************)
Text(template, args) == [text |-> template, args |-> args]

Diagnostic(rule_id, severity, message, path, fix) ==
    [rule_id |-> rule_id, severity |-> severity, message |-> message,
     path |-> path, fix |-> fix]

\* concatenation of the lists f[1], ..., f[n]
RECURSIVE Flatten(_)
Flatten(lists) ==
    IF lists = <<>> THEN <<>> ELSE Head(lists) \o Flatten(Tail(lists))

\* f"{x}" of a str-or-None value
Fmt(o) == IF IsNone(o) THEN S_None ELSE Val(o)

(***************************************************************************)
(* core/expression.py                                                      *)
(***************************************************************************)
\* the keyword without its word boundaries
WordPattern_substring(kw) == ReSeq(<<ReLitI(kw)>>)

\* \bKEYWORD\b with re.IGNORECASE
WordPattern(kw) == ReSeq(<<ReWordB, ReLitI(kw), ReWordB>>)

\* \bFIRST\s+BY\b with re.IGNORECASE
TwoWordPattern(first) ==
    ReSeq(<<ReWordB, ReLitI(first), RePlus(ReSet(Whitespace)), ReLitI(KW_BY), ReWordB>>)

FORBIDDEN_PATTERNS == <<
    <<WordPattern(KW_SELECT), KW_SELECT>>,
    <<WordPattern(KW_FROM), KW_FROM>>,
    <<WordPattern(KW_JOIN), KW_JOIN>>,
    <<WordPattern(KW_WHERE), KW_WHERE>>,
    <<TwoWordPattern(KW_GROUP), KW_GROUP_BY>>,
    <<TwoWordPattern(KW_ORDER), KW_ORDER_BY>>,
    <<WordPattern(KW_WITH), KW_WITH>>,
    <<WordPattern(KW_RANDOM), KW_RANDOM>>,
    <<WordPattern(KW_NEWID), KW_NEWID>>,
    <<WordPattern(KW_GETDATE), KW_GETDATE>>,
    <<WordPattern(KW_NOW), KW_NOW>>,
    <<WordPattern(KW_CURRENT_TIMESTAMP), KW_CURRENT_TIMESTAMP>>,
    <<WordPattern(KW_SYSDATE), KW_SYSDATE>>,
    <<WordPattern(KW_INSERT), KW_INSERT>>,
    <<WordPattern(KW_UPDATE), KW_UPDATE>>,
    <<WordPattern(KW_DELETE), KW_DELETE>>,
    <<WordPattern(KW_CREATE), KW_CREATE>>,
    <<WordPattern(KW_DROP), KW_DROP>>,
    <<WordPattern(KW_ALTER), KW_ALTER>>,
    <<WordPattern(KW_TRUNCATE), KW_TRUNCATE>> >>

ForbiddenDiagnostic(name, path) ==
    Diagnostic(RID_HOOK_006, "ERROR",
        Text("Expression contains forbidden pattern: {0}. Only pure expressions are allowed (Manifest SQL subset)",
             <<name>>),
        path,
        Text("Remove {0} and use only column references, literals, operators, CASE, CAST, and allowed functions",
             <<name>>))

\* the loop over FORBIDDEN_PATTERNS from entry k on, returning at the first hit
RECURSIVE ScanForbidden(_, _, _)
ScanForbidden(expr, path, k) ==
    IF k > Len(FORBIDDEN_PATTERNS) THEN <<>>
    ELSE IF ReSearch(FORBIDDEN_PATTERNS[k][1], expr)
         THEN <<ForbiddenDiagnostic(FORBIDDEN_PATTERNS[k][2], path)>>
         ELSE ScanForbidden(expr, path, k + 1)

\* a loop that reports every matching pattern instead of returning at the first
validate_expr_report_all(expr, path) ==
    IF ~Truthy(expr) \/ IsBlank(Val(expr))
    THEN <<Diagnostic(RID_HOOK_006, "ERROR",
                      Text("Expression must be non-empty", <<>>),
                      path,
                      Text("Provide a valid SQL expression for the business key", <<>>))>>
    ELSE Flatten([k \in DOMAIN FORBIDDEN_PATTERNS |->
                     IF ReSearch(FORBIDDEN_PATTERNS[k][1], Val(expr))
                     THEN <<ForbiddenDiagnostic(FORBIDDEN_PATTERNS[k][2], path)>>
                     ELSE <<>>])

\* expr is the hook's expr (a str, or None for a hook built without it)
validate_expr(expr, path) ==
    IF ~Truthy(expr) \/ IsBlank(Val(expr))
    THEN <<Diagnostic(RID_HOOK_006, "ERROR",
                      Text("Expression must be non-empty", <<>>),
                      path,
                      Text("Provide a valid SQL expression for the business key", <<>>))>>
    ELSE ScanForbidden(Val(expr), path, 1)

(***************************************************************************)
(* Data model (models/*.py).                                               *)
(*   Hook     [name, role, concept, qualifier, source, tenant, expr], each *)
(*            a str or None (model_construct does not check the fields)    *)
(*   Source   [relation, path], each a str or None                         *)
(*   Frame    [name: str, source: Source or None, hooks: list or None]     *)
(*   Concept  [name: str, description: str, is_weak: bool]                 *)
(*   Settings [hook_prefix, weak_hook_prefix, delimiter]                   *)
(*   Manifest [manifest_version, schema_version, settings, frames,         *)
(*             concepts]                                                   *)
(***************************************************************************)
Hook(name, role, concept, qualifier, source, tenant, expr) ==
    [name |-> name, role |-> role, concept |-> concept, qualifier |-> qualifier,
     source |-> source, tenant |-> tenant, expr |-> expr]

Source(relation, path) == [relation |-> relation, path |-> path]

Frame(name, source, hooks) == [name |-> name, source |-> source, hooks |-> hooks]

Concept(name, is_weak) == [name |-> name, description |-> <<>>, is_weak |-> is_weak]

Settings(hook_prefix, weak_hook_prefix, delimiter) ==
    [hook_prefix |-> hook_prefix, weak_hook_prefix |-> weak_hook_prefix,
     delimiter |-> delimiter]

DefaultSettings == Settings(S_hk_prefix, S_wk_prefix, <<"|">>)

Manifest(manifest_version, schema_version, settings, frames, concepts) ==
    [manifest_version |-> manifest_version, schema_version |-> schema_version,
     settings |-> settings, frames |-> frames, concepts |-> concepts]

\* class HookRole(str, Enum)
HookRole == {S_primary, S_foreign}

\* the hooks of a frame as a list (empty when frame.hooks is None)
HooksOf(frame) == IF IsNone(frame.hooks) THEN <<>> ELSE Val(frame.hooks)

\* sep.join(parts)
RECURSIVE Join(_, _)
Join(parts, sep) ==
    IF parts = <<>> THEN <<>>
    ELSE IF Len(parts) = 1 THEN parts[1]
    ELSE parts[1] \o sep \o Join(Tail(parts), sep)

(***************************************************************************)
(* core/registry.py                                                        *)
(***************************************************************************)
\* CONCEPT[~QUALIFIER]@SOURCE[~TENANT]
\* the key set without the tenant
build_key_set_without_tenant(hook) ==
    LET concept_part == Upper(Val(hook.concept)) \o
                        (IF Truthy(hook.qualifier)
                         THEN <<"~">> \o Upper(Val(hook.qualifier)) ELSE <<>>)
        source_part  == Upper(Val(hook.source))
    IN  concept_part \o <<"@">> \o source_part

\* a qualifier or tenant segment for every value that is not None
build_key_set_not_none(hook) ==
    LET concept_part == Upper(Val(hook.concept)) \o
                        (IF ~IsNone(hook.qualifier)
                         THEN <<"~">> \o Upper(Val(hook.qualifier)) ELSE <<>>)
        source_part  == Upper(Val(hook.source)) \o
                        (IF ~IsNone(hook.tenant)
                         THEN <<"~">> \o Upper(Val(hook.tenant)) ELSE <<>>)
    IN  concept_part \o <<"@">> \o source_part

build_key_set(hook) ==
    LET concept_part == Upper(Val(hook.concept)) \o
                        (IF Truthy(hook.qualifier)
                         THEN <<"~">> \o Upper(Val(hook.qualifier)) ELSE <<>>)
        source_part  == Upper(Val(hook.source)) \o
                        (IF Truthy(hook.tenant)
                         THEN <<"~">> \o Upper(Val(hook.tenant)) ELSE <<>>)
    IN  concept_part \o <<"@">> \o source_part

\* the key sets of the first frame only
derive_key_sets_first_frame(manifest) ==
    {build_key_set(HooksOf(manifest.frames[i])[j]) :
        i \in DOMAIN manifest.frames \cap {1}, j \in DOMAIN HooksOf(manifest.frames[1])}

derive_key_sets(manifest) ==
    UNION {{build_key_set(HooksOf(manifest.frames[i])[j]) : j \in DOMAIN HooksOf(manifest.frames[i])} :
              i \in DOMAIN manifest.frames}

\* the concepts collected in upper case
derive_concepts_upper(manifest) ==
    UNION {{IF IsNone(HooksOf(manifest.frames[i])[j].concept) THEN None
            ELSE Some(Upper(Val(HooksOf(manifest.frames[i])[j].concept))) :
               j \in DOMAIN HooksOf(manifest.frames[i])} : i \in DOMAIN manifest.frames}

derive_concepts(manifest) ==
    UNION {{HooksOf(manifest.frames[i])[j].concept : j \in DOMAIN HooksOf(manifest.frames[i])} :
              i \in DOMAIN manifest.frames}

(***************************************************************************)
(* core/rules.py: MANIFEST rules                                           *)
(***************************************************************************)
validate_manifest_version(manifest) ==
    IF ~is_valid_semver(Some(manifest.manifest_version))
    THEN <<Diagnostic(RID_MANIFEST_001, "ERROR",
             Text("Invalid manifest_version: '{0}'. Must be valid semver (MAJOR.MINOR.PATCH)",
                  <<manifest.manifest_version>>),
             S_manifest_version,
             Text("Use format like '1.0.0', '0.1.0', or '2.1.3'", <<>>))>>
    ELSE <<>>

validate_schema_version(manifest) ==
    IF ~is_valid_semver(Some(manifest.schema_version))
    THEN <<Diagnostic(RID_MANIFEST_002, "ERROR",
             Text("Invalid schema_version: '{0}'. Must be valid semver (MAJOR.MINOR.PATCH)",
                  <<manifest.schema_version>>),
             S_schema_version,
             Text("Use format like '1.0.0'", <<>>))>>
    ELSE <<>>

(***************************************************************************)
(* core/rules.py: FRAME rules                                              *)
(***************************************************************************)
\* "not frame.hooks" holds for None and for the empty list
validate_frame_has_hooks(frame, path) ==
    IF HooksOf(frame) = <<>>
    THEN <<Diagnostic(RID_FRAME_001, "ERROR",
             Text("Frame '{0}' has no hooks", <<frame.name>>),
             path \o S_dot_hooks,
             Text("Add at least one hook to the frame", <<>>))>>
    ELSE <<>>

validate_frame_name(frame, path) ==
    IF ~is_valid_frame_name(Some(frame.name))
    THEN <<Diagnostic(RID_FRAME_002, "ERROR",
             Text("Invalid frame name: '{0}'. Must match pattern <schema>.<table> in lower_snake_case",
                  <<frame.name>>),
             path \o S_dot_name,
             Text("Use format like 'frame.customer', 'psa.order', 'staging.order_header'", <<>>))>>
    ELSE <<>>

\* any(...) over frame.hooks: iterating None raises TypeError
validate_frame_has_primary_hook_raises(frame) == IsNone(frame.hooks)

\* a rule that leaves the frame without hooks to FRAME-001
validate_frame_has_primary_hook_skip_empty(frame, path) ==
    LET has_primary == \E j \in DOMAIN HooksOf(frame) :
                           HooksOf(frame)[j].role = Some(S_primary)
    IN  IF ~has_primary /\ HooksOf(frame) # <<>>
        THEN <<Diagnostic(RID_FRAME_003, "ERROR",
                 Text("Frame '{0}' has no primary hook. At least one hook must have role='primary' to define the grain",
                      <<frame.name>>),
                 path \o S_dot_hooks,
                 Text("Change at least one hook's role to 'primary'", <<>>))>>
        ELSE <<>>

validate_frame_has_primary_hook(frame, path) ==
    LET has_primary == \E j \in DOMAIN HooksOf(frame) :
                           HooksOf(frame)[j].role = Some(S_primary)
    IN  IF ~has_primary
        THEN <<Diagnostic(RID_FRAME_003, "ERROR",
                 Text("Frame '{0}' has no primary hook. At least one hook must have role='primary' to define the grain",
                      <<frame.name>>),
                 path \o S_dot_hooks,
                 Text("Change at least one hook's role to 'primary'", <<>>))>>
        ELSE <<>>

validate_frame_source_present(frame, path) ==
    IF IsNone(frame.source)
    THEN <<Diagnostic(RID_FRAME_004, "ERROR",
             Text("Frame '{0}' is missing source", <<frame.name>>),
             path \o S_dot_source,
             Text("Add a source with either 'relation' or 'path'", <<>>))>>
    ELSE <<>>

\* FRAME-005 for both set only, not for neither
validate_frame_source_exclusivity_both_only(frame, path) ==
    IF IsNone(frame.source) THEN <<>>
    ELSE LET has_relation == ~IsNone(Val(frame.source).relation)
             has_path     == ~IsNone(Val(frame.source).path)
         IN  IF has_relation /\ has_path
             THEN <<Diagnostic(RID_FRAME_005, "ERROR",
                      Text("Frame '{0}' source has both relation and path. Only one is allowed",
                           <<frame.name>>),
                      path \o S_dot_source,
                      Text("Remove either 'relation' or 'path' from source", <<>>))>>
             ELSE <<>>

validate_frame_source_exclusivity(frame, path) ==
    IF IsNone(frame.source) THEN <<>>
    ELSE LET has_relation == ~IsNone(Val(frame.source).relation)
             has_path     == ~IsNone(Val(frame.source).path)
         IN  IF has_relation /\ has_path
             THEN <<Diagnostic(RID_FRAME_005, "ERROR",
                      Text("Frame '{0}' source has both relation and path. Only one is allowed",
                           <<frame.name>>),
                      path \o S_dot_source,
                      Text("Remove either 'relation' or 'path' from source", <<>>))>>
             ELSE IF ~has_relation /\ ~has_path
             THEN <<Diagnostic(RID_FRAME_005, "ERROR",
                      Text("Frame '{0}' source has neither relation nor path", <<frame.name>>),
                      path \o S_dot_source,
                      Text("Add either 'relation' or 'path' to source", <<>>))>>
             ELSE <<>>

validate_frame_source_nonempty(frame, path) ==
    IF IsNone(frame.source) THEN <<>>
    ELSE (IF Val(frame.source).relation = Some(<<>>)
          THEN <<Diagnostic(RID_FRAME_006, "ERROR",
                   Text("Frame '{0}' source.relation is empty", <<frame.name>>),
                   path \o S_dot_source_relation,
                   Text("Provide a non-empty relation value (e.g., 'psa.customer')", <<>>))>>
          ELSE <<>>)
         \o
         (IF Val(frame.source).path = Some(<<>>)
          THEN <<Diagnostic(RID_FRAME_006, "ERROR",
                   Text("Frame '{0}' source.path is empty", <<frame.name>>),
                   path \o S_dot_source_path,
                   Text("Provide a non-empty path value (e.g., '//server/qvd/customer.qvd')", <<>>))>>
          ELSE <<>>)

(***************************************************************************)
(* core/rules.py: HOOK rules                                               *)
(***************************************************************************)
validate_hook_required_fields(hook, path) ==
    LET missing_fields ==
            (IF ~Truthy(hook.name) THEN <<S_name>> ELSE <<>>) \o
            (IF IsNone(hook.role) THEN <<S_role>> ELSE <<>>) \o
            (IF ~Truthy(hook.concept) THEN <<S_concept>> ELSE <<>>) \o
            (IF ~Truthy(hook.source) THEN <<S_source>> ELSE <<>>) \o
            (IF ~Truthy(hook.expr) THEN <<S_expr>> ELSE <<>>)
    IN  IF missing_fields # <<>>
        THEN <<Diagnostic(RID_HOOK_001, "ERROR",
                 Text("Hook is missing required fields: {0}",
                      <<Join(missing_fields, S_comma_space)>>),
                 path,
                 Text("Add the missing fields: {0}",
                      <<Join(missing_fields, S_comma_space)>>))>>
        ELSE <<>>

\* the name checked against the prefix of the settings
validate_hook_name_settings_prefix(hook, path, settings) ==
    IF IsNone(hook.name) \/ ~StartsWith(Val(hook.name), settings.hook_prefix)
    THEN <<Diagnostic(RID_HOOK_002, "ERROR",
             Text("Invalid hook name: '{0}'. Must match pattern <prefix><concept>[__<qualifier>]",
                  <<Fmt(hook.name)>>),
             path \o S_dot_name,
             Text("Use format like '{0}customer' or '{1}employee__manager'",
                  <<settings.hook_prefix, settings.hook_prefix>>))>>
    ELSE <<>>

validate_hook_name(hook, path, settings) ==
    IF ~is_valid_hook_name(hook.name)
    THEN <<Diagnostic(RID_HOOK_002, "ERROR",
             Text("Invalid hook name: '{0}'. Must match pattern <prefix><concept>[__<qualifier>]",
                  <<Fmt(hook.name)>>),
             path \o S_dot_name,
             Text("Use format like '{0}customer' or '{1}employee__manager'",
                  <<settings.hook_prefix, settings.hook_prefix>>))>>
    ELSE <<>>

\* isinstance(hook.role, HookRole)
validate_hook_role(hook, path) ==
    IF ~IsNone(hook.role) /\ Val(hook.role) \notin HookRole
    THEN <<Diagnostic(RID_HOOK_003, "ERROR",
             Text("Invalid hook role: '{0}'. Must be 'primary' or 'foreign'",
                  <<Val(hook.role)>>),
             path \o S_dot_role,
             Text("Set role to 'primary' (defines grain) or 'foreign' (references)", <<>>))>>
    ELSE <<>>

\* a rule that looks at the concept only
validate_hook_concept_without_qualifier(hook, path) ==
    IF Truthy(hook.concept) /\ ~is_lower_snake_case(hook.concept)
    THEN <<Diagnostic(RID_HOOK_004, "ERROR",
             Text("Invalid concept name: '{0}'. Must be lower_snake_case",
                  <<Val(hook.concept)>>),
             path \o S_dot_concept,
             Text("Use format like 'customer', 'order_line', 'product'", <<>>))>>
    ELSE <<>>

validate_hook_concept(hook, path) ==
    (IF Truthy(hook.concept) /\ ~is_lower_snake_case(hook.concept)
     THEN <<Diagnostic(RID_HOOK_004, "ERROR",
              Text("Invalid concept name: '{0}'. Must be lower_snake_case",
                   <<Val(hook.concept)>>),
              path \o S_dot_concept,
              Text("Use format like 'customer', 'order_line', 'product'", <<>>))>>
     ELSE <<>>)
    \o
    (IF Truthy(hook.qualifier) /\ ~is_lower_snake_case(hook.qualifier)
     THEN <<Diagnostic(RID_HOOK_004, "ERROR",
              Text("Invalid qualifier: '{0}'. Must be lower_snake_case",
                   <<Val(hook.qualifier)>>),
              path \o S_dot_qualifier,
              Text("Use format like 'manager', 'billing', 'shipping'", <<>>))>>
     ELSE <<>>)

validate_hook_source(hook, path) ==
    (IF Truthy(hook.source) /\ ~is_upper_snake_case(hook.source)
     THEN <<Diagnostic(RID_HOOK_005, "ERROR",
              Text("Invalid source: '{0}'. Must be UPPER_SNAKE_CASE", <<Val(hook.source)>>),
              path \o S_dot_source,
              Text("Use format like 'CRM', 'SAP', 'SAP_FIN'", <<>>))>>
     ELSE <<>>)
    \o
    (IF Truthy(hook.tenant) /\ ~is_upper_snake_case(hook.tenant)
     THEN <<Diagnostic(RID_HOOK_005, "ERROR",
              Text("Invalid tenant: '{0}'. Must be UPPER_SNAKE_CASE", <<Val(hook.tenant)>>),
              path \o S_dot_tenant,
              Text("Use format like 'AU', 'US', 'EU_WEST'", <<>>))>>
     ELSE <<>>)

validate_hook_expr(hook, path) == validate_expr(hook.expr, path \o S_dot_expr)

\* a seen_names that remembers the previous hook only
SeenNames_previous_only(hooks, n) == IF n = 0 THEN {} ELSE {hooks[n].name}

\* seen_names after the first n hooks of the list
SeenNames(hooks, n) == {hooks[k].name : k \in 1 .. n}

\* the loop body for hook number j (index j - 1 of enumerate)
HookNameUniquenessAt(frame, path, j) ==
    IF HooksOf(frame)[j].name \in SeenNames(HooksOf(frame), j - 1)
    THEN <<Diagnostic(RID_HOOK_007, "ERROR",
             Text("Duplicate hook name '{0}' in frame '{1}'",
                  <<Fmt(HooksOf(frame)[j].name), frame.name>>),
             path \o S_dot_hooks_open \o IntToStr(j - 1) \o S_close \o S_dot_name,
             Text("Use unique hook names within each frame. Add a qualifier to distinguish (e.g., _hk__order__billing)",
                  <<>>))>>
    ELSE <<>>

validate_hook_name_uniqueness(frame, path) ==
    Flatten([j \in DOMAIN HooksOf(frame) |-> HookNameUniquenessAt(frame, path, j)])

(***************************************************************************)
(* core/rules.py: CONCEPT rules                                            *)
(***************************************************************************)
validate_concept_in_frames(concept, path, manifest) ==
    LET used_concepts == derive_concepts(manifest)
    IN  IF Some(concept.name) \notin used_concepts
        THEN <<Diagnostic(RID_CONCEPT_001, "ERROR",
                 Text("Concept '{0}' is defined but not used in any hook", <<concept.name>>),
                 path,
                 Text("Either use this concept in a hook or remove it from the concepts section",
                      <<>>))>>
        ELSE <<>>

validate_concept_description(concept, path) == <<>>

\* seen_names[name]: the first index (from 0) among the first n concepts
FirstIndexOf(concepts, name) ==
    (CHOOSE k \in DOMAIN concepts :
        /\ concepts[k].name = name
        /\ \A l \in 1 .. (k - 1) : concepts[l].name # name) - 1

NoDuplicateConceptsAt(manifest, i) ==
    IF \E k \in 1 .. (i - 1) : manifest.concepts[k].name = manifest.concepts[i].name
    THEN <<Diagnostic(RID_CONCEPT_003, "ERROR",
             Text("Duplicate concept name: '{0}' (first defined at concepts[{1}])",
                  <<manifest.concepts[i].name,
                    IntToStr(FirstIndexOf(manifest.concepts, manifest.concepts[i].name))>>),
             S_concepts_open \o IntToStr(i - 1) \o S_close \o S_dot_name,
             Text("Remove duplicate concept or rename one of them", <<>>))>>
    ELSE <<>>

validate_no_duplicate_concepts(manifest) ==
    Flatten([i \in DOMAIN manifest.concepts |-> NoDuplicateConceptsAt(manifest, i)])

(***************************************************************************)
(* core/rules.py: WARN rules                                               *)
(***************************************************************************)
CONCEPT_COUNT_LIMIT == 100

HOOK_COUNT_LIMIT == 20

FRAME_COUNT_LIMIT == 50

warn_concept_count(manifest) ==
    LET concept_count == Len(manifest.concepts)
    IN  IF concept_count > CONCEPT_COUNT_LIMIT
        THEN <<Diagnostic(RID_CONCEPT_W01, "WARN",
                 Text("Manifest has {0} concepts (exceeds 100). Consider splitting into multiple manifests",
                      <<IntToStr(concept_count)>>),
                 S_concepts,
                 Text("Group related concepts into separate manifests by domain", <<>>))>>
        ELSE <<>>

\* hook.name.startswith: AttributeError when hook.name is None
warn_weak_hook_mismatch_raises(hook) == IsNone(hook.name)

\* next((c for c in concepts if c.name == hook.concept), None)
MatchingConcept(hook, concepts) ==
    LET hits == {k \in DOMAIN concepts : Some(concepts[k].name) = hook.concept}
    IN  IF hits = {} THEN None
        ELSE Some(concepts[CHOOSE k \in hits : \A l \in hits : k <= l])

\* the warning for every weak prefix, whatever the declared concept
warn_weak_hook_mismatch_any_concept(hook, path, concepts) ==
    LET uses_weak_prefix == ~IsNone(hook.name) /\ StartsWith(Val(hook.name), S_wk_prefix)
    IN  IF uses_weak_prefix
        THEN <<Diagnostic(RID_HOOK_W01, "WARN",
                 Text("Hook '{0}' uses weak prefix but concept '{1}' has is_weak=False",
                      <<Fmt(hook.name), Fmt(hook.concept)>>),
                 path,
                 Text("Either set concept is_weak=True or use strong hook prefix", <<>>))>>
        ELSE <<>>

warn_weak_hook_mismatch(hook, path, concepts) ==
    LET uses_weak_prefix == ~IsNone(hook.name) /\ StartsWith(Val(hook.name), S_wk_prefix)
        matching_concept == MatchingConcept(hook, concepts)
    IN  IF uses_weak_prefix /\ ~IsNone(matching_concept) /\ ~Val(matching_concept).is_weak
        THEN <<Diagnostic(RID_HOOK_W01, "WARN",
                 Text("Hook '{0}' uses weak prefix but concept '{1}' has is_weak=False",
                      <<Fmt(hook.name), Fmt(hook.concept)>>),
                 path,
                 Text("Either set concept is_weak=True or use strong hook prefix", <<>>))>>
        ELSE <<>>

\* the warning for a frame without hooks too
warn_no_primary_only_foreign_without_hooks(frame, path) ==
    IF ~(\E j \in DOMAIN HooksOf(frame) : HooksOf(frame)[j].role = Some(S_primary))
    THEN <<Diagnostic(RID_FRAME_W01, "WARN",
             Text("Frame '{0}' has no primary hook. This frame may be a lookup table or needs review",
                  <<frame.name>>),
             path \o S_dot_hooks,
             Text("Add a primary hook or confirm this is intentional for a lookup", <<>>))>>
    ELSE <<>>

warn_no_primary_only_foreign(frame, path) ==
    IF HooksOf(frame) = <<>> THEN <<>>
    ELSE IF ~(\E j \in DOMAIN HooksOf(frame) : HooksOf(frame)[j].role = Some(S_primary))
    THEN <<Diagnostic(RID_FRAME_W01, "WARN",
             Text("Frame '{0}' has no primary hook. This frame may be a lookup table or needs review",
                  <<frame.name>>),
             path \o S_dot_hooks,
             Text("Add a primary hook or confirm this is intentional for a lookup", <<>>))>>
    ELSE <<>>

\* frame.source.relation or frame.source.path or "" ("" when source is None,
\* where the code adds nothing to the dict)
SourceKey(frame) ==
    IF IsNone(frame.source) THEN <<>>
    ELSE IF Truthy(Val(frame.source).relation) THEN Val(Val(frame.source).relation)
    ELSE IF Truthy(Val(frame.source).path) THEN Val(Val(frame.source).path)
    ELSE <<>>

\* sources[key]: the names of the frames with that key, in declaration order
FrameNamesOfSource(manifest, key) ==
    Flatten([i \in DOMAIN manifest.frames |->
                IF SourceKey(manifest.frames[i]) = key
                THEN <<manifest.frames[i].name>> ELSE <<>>])

\* the dict keeps its keys in insertion order: a key is visited at the
\* position of the first frame that has it
\* a warning at every frame that shares its key, not at the first one only
DuplicateSourceAt_every_frame(manifest, i) ==
    LET key == SourceKey(manifest.frames[i])
        frame_names == FrameNamesOfSource(manifest, key)
    IN  IF /\ key # <<>>
           /\ Len(frame_names) > 1
        THEN <<Diagnostic(RID_FRAME_W02, "WARN",
                 Text("Source '{0}' is used by multiple frames: {1}",
                      <<key, Join(frame_names, S_comma_space)>>),
                 S_frames,
                 Text("Review if these frames should share a source or be consolidated", <<>>))>>
        ELSE <<>>

DuplicateSourceAt(manifest, i) ==
    LET key == SourceKey(manifest.frames[i])
        frame_names == FrameNamesOfSource(manifest, key)
    IN  IF /\ key # <<>>
           /\ \A k \in 1 .. (i - 1) : SourceKey(manifest.frames[k]) # key
           /\ Len(frame_names) > 1
        THEN <<Diagnostic(RID_FRAME_W02, "WARN",
                 Text("Source '{0}' is used by multiple frames: {1}",
                      <<key, Join(frame_names, S_comma_space)>>),
                 S_frames,
                 Text("Review if these frames should share a source or be consolidated", <<>>))>>
        ELSE <<>>

warn_duplicate_source(manifest) ==
    Flatten([i \in DOMAIN manifest.frames |-> DuplicateSourceAt(manifest, i)])

warn_too_many_hooks(frame, path) ==
    LET hook_count == Len(HooksOf(frame))
    IN  IF hook_count > HOOK_COUNT_LIMIT
        THEN <<Diagnostic(RID_FRAME_W03, "WARN",
                 Text("Frame '{0}' has {1} hooks (exceeds 20). Consider splitting into multiple frames",
                      <<frame.name, IntToStr(hook_count)>>),
                 path \o S_dot_hooks,
                 Text("Group related hooks into separate frames by concern", <<>>))>>
        ELSE <<>>

warn_too_many_frames(manifest) ==
    LET frame_count == Len(manifest.frames)
    IN  IF frame_count > FRAME_COUNT_LIMIT
        THEN <<Diagnostic(RID_MANIFEST_W01, "WARN",
                 Text("Manifest has {0} frames (exceeds 50). Consider splitting into multiple manifests",
                      <<IntToStr(frame_count)>>),
                 S_frames,
                 Text("Group related frames into separate manifests by domain", <<>>))>>
        ELSE <<>>

known_fields ==
    {S_manifest_version, S_schema_version, S_metadata, S_settings, S_frames, S_concepts}

\* every key of raw_data taken as unknown
unknown_fields_every_key(raw_data) == raw_data

\* set(raw_data.keys()) - known_fields; raw_data is given by its keys
unknown_fields(raw_data) == raw_data \ known_fields

\* The orders in which "for field in unknown_fields" can visit the set: the
\* iteration order of a set of str is fixed by the hash seed of the process,
\* not by the program.
SetIterations(S) ==
    {order \in [1 .. Cardinality(S) -> S] : \A x \in S : \E k \in DOMAIN order : order[k] = x}

UnknownFieldDiagnostic(field) ==
    Diagnostic(RID_MANIFEST_W02, "WARN",
        Text("Unknown field '{0}' in manifest root. This may be from a newer schema version",
             <<field>>),
        field,
        Text("Check schema version compatibility or remove unknown field", <<>>))

\* iteration: the order in which the loop visits unknown_fields(raw_data)
warn_unknown_fields(raw_data, iteration) ==
    [k \in DOMAIN iteration |-> UnknownFieldDiagnostic(iteration[k])]

(***************************************************************************)
(* core/validation.py                                                      *)
(***************************************************************************)
FramePath(i) == S_frames_open \o IntToStr(i - 1) \o S_close

\* the hooks counted from one
HookPath_one_based(path, j) == path \o S_dot_hooks_open \o IntToStr(j) \o S_close

HookPath(path, j) == path \o S_dot_hooks_open \o IntToStr(j - 1) \o S_close

ConceptPath(i) == S_concepts_open \o IntToStr(i - 1) \o S_close

\* a loop body that stops at a hook's first failing rule
HookLevel_short_circuit(manifest, hook, hook_path, include_warnings) ==
    IF validate_hook_required_fields(hook, hook_path) # <<>>
    THEN validate_hook_required_fields(hook, hook_path)
    ELSE validate_hook_name(hook, hook_path, manifest.settings)
         \o validate_hook_role(hook, hook_path)
         \o validate_hook_concept(hook, hook_path)
         \o validate_hook_source(hook, hook_path)
         \o validate_hook_expr(hook, hook_path)
         \o (IF include_warnings
             THEN warn_weak_hook_mismatch(hook, hook_path, manifest.concepts)
             ELSE <<>>)

\* the body of "for j, hook in enumerate(frame.hooks)"
HookLevel(manifest, hook, hook_path, include_warnings) ==
    validate_hook_required_fields(hook, hook_path)
    \o validate_hook_name(hook, hook_path, manifest.settings)
    \o validate_hook_role(hook, hook_path)
    \o validate_hook_concept(hook, hook_path)
    \o validate_hook_source(hook, hook_path)
    \o validate_hook_expr(hook, hook_path)
    \o (IF include_warnings
        THEN warn_weak_hook_mismatch(hook, hook_path, manifest.concepts)
        ELSE <<>>)

\* the body of "for i, frame in enumerate(manifest.frames)"
FrameLevel(manifest, frame, path, include_warnings) ==
    validate_frame_name(frame, path)
    \o validate_frame_has_hooks(frame, path)
    \o validate_frame_has_primary_hook(frame, path)
    \o validate_frame_source_present(frame, path)
    \o validate_frame_source_exclusivity(frame, path)
    \o validate_frame_source_nonempty(frame, path)
    \o validate_hook_name_uniqueness(frame, path)
    \o Flatten([j \in DOMAIN HooksOf(frame) |->
                   HookLevel(manifest, HooksOf(frame)[j], HookPath(path, j), include_warnings)])
    \o (IF include_warnings THEN warn_too_many_hooks(frame, path) ELSE <<>>)

\* the body of "for i, concept in enumerate(manifest.concepts)"
ConceptLevel(manifest, concept, path) ==
    validate_concept_in_frames(concept, path, manifest)
    \o validate_concept_description(concept, path)

\* "if include_warnings:" at the end; raw_data is None or the keys of the dict
WarnLevel(manifest, raw_data, iteration) ==
    warn_concept_count(manifest)
    \o warn_duplicate_source(manifest)
    \o warn_too_many_frames(manifest)
    \o (IF ~IsNone(raw_data) THEN warn_unknown_fields(Val(raw_data), iteration) ELSE <<>>)

\* the list "diagnostics" before it is sorted
CollectDiagnostics(manifest, include_warnings, raw_data, iteration) ==
    validate_manifest_version(manifest)
    \o validate_schema_version(manifest)
    \o Flatten([i \in DOMAIN manifest.frames |->
                   FrameLevel(manifest, manifest.frames[i], FramePath(i), include_warnings)])
    \o validate_no_duplicate_concepts(manifest)
    \o Flatten([i \in DOMAIN manifest.concepts |->
                   ConceptLevel(manifest, manifest.concepts[i], ConceptPath(i))])
    \o (IF include_warnings THEN WarnLevel(manifest, raw_data, iteration) ELSE <<>>)

\* an exception leaves validate_manifest: a rule iterates frame.hooks = None,
\* or HOOK-W01 calls startswith on hook.name = None
ValidateManifestRaises(manifest, include_warnings) ==
    \E i \in DOMAIN manifest.frames :
        \/ validate_frame_has_primary_hook_raises(manifest.frames[i])
        \/ /\ include_warnings
           /\ \E j \in DOMAIN HooksOf(manifest.frames[i]) :
                  warn_weak_hook_mismatch_raises(HooksOf(manifest.frames[i])[j])

\* the ranks exchanged: warnings would come first
severity_order_warn_first(d) == IF d.severity = "ERROR" THEN 1 ELSE 0

severity_order(d) == IF d.severity = "ERROR" THEN 0 ELSE 1

\* a key without the path
sort_key_without_path(d) == <<severity_order(d), d.rule_id, <<>>>>

sort_key(d) == <<severity_order(d), d.rule_id, d.path>>

\* k1 < k2 for two (int, str, str) tuples: the first unequal component decides
KeyLess(k1, k2) ==
    IF k1[1] # k2[1] THEN k1[1] < k2[1]
    ELSE IF k1[2] # k2[2] THEN StrLess(k1[2], k2[2])
    ELSE StrLess(k1[3], k2[3])

\* list.sort(key=sort_key) is a stable sort: an element is placed behind the
\* elements with a smaller key and behind the earlier elements with an equal key
SortRanks(key) ==
    [k \in DOMAIN key |->
        Cardinality({l \in DOMAIN key :
            \/ KeyLess(key[l], key[k])
            \/ l < k /\ ~KeyLess(key[k], key[l])}) + 1]

PlaceByRank(list, rank) ==
    [p \in DOMAIN list |-> list[CHOOSE k \in DOMAIN list : rank[k] = p]]

\* (key and rank are bound by sets so that they are computed once)
SortDiagnostics(list) ==
    CHOOSE sorted \in {PlaceByRank(list, rank) :
                          rank \in {SortRanks(key) :
                                      key \in {[k \in DOMAIN list |-> sort_key(list[k])]}}} : TRUE

Returned(diagnostics) == [raised |-> FALSE, diagnostics |-> diagnostics]

Raised == [raised |-> TRUE, diagnostics |-> <<>>]

validate_manifest(manifest, include_warnings, raw_data, iteration) ==
    IF ValidateManifestRaises(manifest, include_warnings) THEN Raised
    ELSE Returned(SortDiagnostics(
             CollectDiagnostics(manifest, include_warnings, raw_data, iteration)))

has_errors(diagnostics) == \E k \in DOMAIN diagnostics : diagnostics[k].severity = "ERROR"

IsError(d) == d.severity = "ERROR"

IsWarn(d) == d.severity = "WARN"

filter_errors(diagnostics) == SelectSeq(diagnostics, IsError)

filter_warnings(diagnostics) == SelectSeq(diagnostics, IsWarn)

(***************************************************************************)
(* io/yaml.py and cli/validate.py.  A manifest file is given by whether it  *)
(* exists, whether its YAML parses, and the document it holds: the value    *)
(* model_validate would build and the top-level keys of the mapping.        *)
(***************************************************************************)
\* Manifest.model_validate(raw_data) raises ValidationError: a required key or
\* field is missing, a role is no HookRole, or a Source sets both or neither
\* of relation and path
model_validate_raises(manifest, raw_data) ==
    \/ ~({S_manifest_version, S_schema_version, S_frames} \subseteq raw_data)
    \/ \E i \in DOMAIN manifest.frames :
           \/ IsNone(manifest.frames[i].source)
           \/ IsNone(manifest.frames[i].hooks)
           \/ /\ ~IsNone(manifest.frames[i].source)
              /\ IsNone(Val(manifest.frames[i].source).relation)
                     = IsNone(Val(manifest.frames[i].source).path)
           \/ \E j \in DOMAIN HooksOf(manifest.frames[i]) :
                  \/ IsNone(HooksOf(manifest.frames[i])[j].name)
                  \/ IsNone(HooksOf(manifest.frames[i])[j].concept)
                  \/ IsNone(HooksOf(manifest.frames[i])[j].source)
                  \/ IsNone(HooksOf(manifest.frames[i])[j].expr)
                  \/ IsNone(HooksOf(manifest.frames[i])[j].role)
                  \/ /\ ~IsNone(HooksOf(manifest.frames[i])[j].role)
                     /\ Val(HooksOf(manifest.frames[i])[j].role) \notin HookRole

\* what the command leaves behind: the exit code, the "valid" field of the
\* JSON output ("none" without --json), the lists handed to the presenter and
\* the diagnostics in the order the human presenter prints them
Outcome(exit_code, json_output, valid, errors, warnings) ==
    [exit_code |-> exit_code,
     json_valid |-> IF ~json_output THEN "none" ELSE IF valid THEN "true" ELSE "false",
     errors |-> errors, warnings |-> warnings,
     printed |-> IF json_output THEN <<>> ELSE errors \o warnings]

\* an exit code that ignores the diagnostics
ExitCode_always_zero(diagnostics) == 0

\* "if has_errors(diagnostics): raise typer.Exit(code=1)", else code 0
ExitCode(diagnostics) == IF has_errors(diagnostics) THEN 1 ELSE 0

\* a presenter that is handed the warnings first
Present_warnings_first(diagnostics, json_output) ==
    Outcome(ExitCode(diagnostics), json_output,
            Len(filter_errors(diagnostics)) = 0,
            filter_warnings(diagnostics), filter_errors(diagnostics))

\* the part of validate() after validate_manifest has returned diagnostics
Present(diagnostics, json_output) ==
    Outcome(ExitCode(diagnostics), json_output,
            Len(filter_errors(diagnostics)) = 0,
            filter_errors(diagnostics), filter_warnings(diagnostics))

\* validate(manifest_path, json_output): called is what validate_manifest
\* gives for the loaded manifest; an exception that leaves validate_manifest
\* is not caught and ends the process with exit code 1 and no report
validate(file_exists, yaml_parses, manifest, raw_data, json_output, called) ==
    IF ~file_exists THEN Outcome(2, json_output, FALSE, <<>>, <<>>)
    ELSE IF ~yaml_parses THEN Outcome(1, json_output, FALSE, <<>>, <<>>)
    ELSE IF model_validate_raises(manifest, raw_data)
         THEN Outcome(1, json_output, FALSE, <<>>, <<>>)
    ELSE IF called.raised THEN Outcome(1, FALSE, FALSE, <<>>, <<>>)
    ELSE Present(called.diagnostics, json_output)

(***************************************************************************)
(* Inputs.  The manifests are those a parser or model_construct can hand   *)
(* to validate_manifest; they are drawn from families, each varying        *)
(* one level of the document around a valid manifest, and a few documents  *)
(* that cross the count limits of the WARN rules.                          *)
(***************************************************************************)
MaxFrames == 2

MaxHooks == 3

MaxConcepts == 2

MaxHookDeviations == 2

SeqsUpTo(S, n) == UNION {[1 .. k -> S] : k \in 0 .. n}

\* n copies of x
Repeat(x, n) == [k \in 1 .. n |-> x]

BaseHook(concept) ==
    Hook(Some(S_hk_prefix \o concept), Some(S_primary), Some(concept), None,
         Some(SRC_S), None, Some(E_x))

BaseSource == Some(Source(Some(REL_r_a), None))

BaseFrame == Frame(FN_f_a, BaseSource, Some(<<BaseHook(C_a)>>))

ValidManifest(frames, concepts) ==
    Manifest(V_1_0_0, V_1_0_0, DefaultSettings, frames, concepts)

\* hook family: one hook whose fields deviate from BaseHook(a)
HookNames      == {Some(N_hk_a), Some(N_wk_a), Some(N_plain_a), Some(<<>>), None}
HookRoles      == {Some(S_primary), Some(S_foreign), Some(R_other), None}
HookConcepts   == {Some(C_a), Some(C_upper_A), Some(<<>>), None}
HookQualifiers == {None, Some(Q_q), Some(Q_upper_Q), Some(<<>>)}
HookSources    == {Some(SRC_S), Some(SRC_lower_s), None}
HookTenants    == {None, Some(T_T), Some(T_lower_t)}
HookExprs      == {Some(E_x), Some(<<>>), Some(E_space), Some(E_select_x_from_t)}

Deviations(hook) ==
    LET base == BaseHook(C_a)
    IN  Cardinality({f \in DOMAIN base : hook[f] # base[f]})

HookVariants ==
    {hook \in [name : HookNames, role : HookRoles, concept : HookConcepts,
               qualifier : HookQualifiers, source : HookSources,
               tenant : HookTenants, expr : HookExprs] :
        Deviations(hook) <= MaxHookDeviations}

ConceptChoices == {<<>>, <<Concept(C_a, FALSE)>>, <<Concept(C_a, TRUE)>>}

HookFamily ==
    {ValidManifest(<<Frame(FN_f_a, BaseSource, Some(<<hook>>))>>, concepts) :
        hook \in HookVariants, concepts \in ConceptChoices}
    \cup {ValidManifest(<<Frame(FN_f_a, BaseSource, Some(<<BaseHook(C_b), hook>>))>>, <<>>) :
             hook \in HookVariants}

\* frame family: the name or the source of the first frame varies, and further
\* frames follow it
FrameNames == {FN_f_a, FN_upper_F}

FrameSources ==
    {None} \cup
    {Some(Source(relation, path)) :
        relation \in {None, Some(<<>>), Some(REL_r_a), Some(REL_r_b)},
        path \in {None, Some(<<>>), Some(REL_r_a)}}

FrameVariants ==
    {Frame(FN_f_a, source, Some(<<BaseHook(C_a)>>)) : source \in FrameSources}
    \cup {Frame(name, BaseSource, Some(<<BaseHook(C_a)>>)) : name \in FrameNames}

FrameFollowers ==
    {BaseFrame,
     Frame(FN_f_a, Some(Source(Some(<<>>), Some(REL_r_a))), Some(<<BaseHook(C_a)>>)),
     Frame(FN_upper_F, BaseSource, Some(<<BaseHook(C_a)>>))}

FrameFamily ==
    {ValidManifest(<<first>> \o rest, <<>>) :
        first \in FrameVariants, rest \in SeqsUpTo(FrameFollowers, MaxFrames - 1)}

\* structure family: the hook list of one frame varies, or several frames
\* carry the same hooks
StructHooks ==
    {BaseHook(C_a), [BaseHook(C_a) EXCEPT !.role = Some(S_foreign)],
     [BaseHook(C_b) EXCEPT !.role = Some(S_foreign)]}

HookLists(hooks, n) == {Some(list) : list \in SeqsUpTo(hooks, n)} \cup {None}

StructFrames(hooks, n) == {Frame(FN_f_a, BaseSource, list) : list \in HookLists(hooks, n)}

\* the hook lists of the frames of a manifest with several frames
SharedHookLists ==
    {None, Some(<<>>), Some(<<BaseHook(C_a)>>), Some(<<BaseHook(C_a), BaseHook(C_a)>>),
     Some(<<BaseHook(C_a), BaseHook(C_b)>>)}

StructFamily ==
    {ValidManifest(<<frame>>, <<>>) : frame \in StructFrames(StructHooks, MaxHooks)}
    \cup {ValidManifest(frames, <<>>) :
             frames \in SeqsUpTo({Frame(FN_f_a, BaseSource, list) : list \in SharedHookLists},
                                 MaxFrames)}

\* document family: versions, declared concepts, an empty frame list
Versions == {V_1_0_0, V_1_0, V_v1_0_0, V_1_0_0_newline}

DeclaredConcepts == {Concept(C_a, FALSE), Concept(C_a, TRUE), Concept(C_b, FALSE)}

DocumentFamily ==
    {Manifest(manifest_version, schema_version, DefaultSettings, frames, concepts) :
        manifest_version \in Versions,
        schema_version \in {V_1_0_0, V_1_0, V_1_0_0_newline},
        frames \in {<<>>, <<BaseFrame>>},
        concepts \in SeqsUpTo(DeclaredConcepts, MaxConcepts)}

\* documents that cross a count limit
LimitFamily ==
    {ValidManifest(<<Frame(FN_f_a, BaseSource, Some(Repeat(BaseHook(C_a), n)))>>, <<>>) :
        n \in {HOOK_COUNT_LIMIT, HOOK_COUNT_LIMIT + 1}}
    \cup {ValidManifest(Repeat(BaseFrame, n), <<>>) :
             n \in {FRAME_COUNT_LIMIT, FRAME_COUNT_LIMIT + 1}}
    \cup {ValidManifest(<<BaseFrame>>, Repeat(Concept(C_a, FALSE), n)) :
             n \in {CONCEPT_COUNT_LIMIT, CONCEPT_COUNT_LIMIT + 1}}

\* sharing family: several frames over two source values
SharingFrames == 4

SharedSourceFamily ==
    {ValidManifest(frames, <<>>) :
        frames \in [1 .. SharingFrames ->
                      {BaseFrame, Frame(FN_f_b, Some(Source(None, Some(REL_r_b))),
                                        Some(<<BaseHook(C_a)>>))}]}

\* weak family: a strong or a weak hook name over declared concepts, which
\* may declare the concept of the hook twice
WeakHooks ==
    {BaseHook(C_a), [BaseHook(C_a) EXCEPT !.name = Some(N_wk_a)],
     [BaseHook(C_b) EXCEPT !.name = Some(N_wk_a)]}

WeakFamily ==
    {ValidManifest(<<Frame(FN_f_a, BaseSource, Some(<<BaseHook(C_a), hook>>))>>, concepts) :
        hook \in WeakHooks, concepts \in SeqsUpTo(DeclaredConcepts, MaxConcepts)}

\* located family: the second frame has two hooks, each valid or with one
\* field that a hook rule reports
LocatedHooks ==
    {BaseHook(C_b),
     [BaseHook(C_b) EXCEPT !.role = Some(R_other)],
     [BaseHook(C_b) EXCEPT !.concept = Some(C_upper_A)],
     [BaseHook(C_a) EXCEPT !.source = Some(SRC_lower_s)]}

LocatedFamily ==
    {ValidManifest(<<BaseFrame,
                     Frame(FN_f_b, Some(Source(None, Some(REL_r_b))),
                           Some(<<first, second>>))>>, concepts) :
        first \in LocatedHooks, second \in LocatedHooks,
        concepts \in {<<>>, <<Concept(C_a, FALSE), Concept(C_a, TRUE)>>,
                            <<Concept(C_a, FALSE), Concept(C_upper_A, FALSE)>>}}

Manifests ==
    HookFamily \cup FrameFamily \cup StructFamily \cup DocumentFamily \cup LimitFamily
    \cup SharedSourceFamily \cup WeakFamily \cup LocatedFamily

\* raw_data: None, or the keys of the parsed document with unknown ones
RawKeys == {S_manifest_version, S_frames, K_extra, K_custom}

RawDatas == {None} \cup {Some(keys) : keys \in SUBSET RawKeys}

\* expressions: up to MaxPieces pieces put one after the other
MaxPieces == 3

ExprPieces ==
    {P_select, P_FROM, P_group, P_by, P_Now, E_x, <<"1">>, <<"_">>, <<" ">>, <<"\n">>, <<"(">>}

Exprs == {Some(Flatten(pieces)) : pieces \in SeqsUpTo(ExprPieces, MaxPieces)} \cup {None}

(***************************************************************************)
(* State: one validation request and the results of two calls for it; one  *)
(* expression and the result of validate_expr for it.                      *)
(***************************************************************************)
VARIABLES manifest, include_warnings, raw_data, pc, result, result2,
          expr, expr_diagnostics, cli, registry, normalization,
          other_settings, frame_warning, flags, wizard

vars == <<manifest, include_warnings, raw_data, pc, result, result2,
          expr, expr_diagnostics, cli, registry, normalization,
          other_settings, frame_warning, flags, wizard>>

\* the parts of the state that the validate command, the registry functions
\* and the normalization predicates use, before they are used
NoCommand == [file_exists |-> TRUE, yaml_parses |-> TRUE, json_output |-> FALSE,
              exit_code |-> -1, json_valid |-> "none",
              errors |-> <<>>, warnings |-> <<>>, printed |-> <<>>]

NoRegistry == [given |-> <<>>, reordered |-> <<>>, called |-> {}, key_sets |-> {}, concepts |-> {},
               key_sets_reordered |-> {}, concepts_reordered |-> {}]

NoNormalization == [kind |-> "none", s |-> <<>>, hook_name |-> None, semver |-> None]

\* the parts of the state that a second settings object, a rule called on its
\* own and the init command use, before they are used
NoFrameWarning == [frame |-> 0, called |-> FALSE, diagnostics |-> <<>>]

NoFlags == [concept |-> <<>>, source |-> <<>>, built |-> FALSE]

NoWizard == [step |-> "none"]

further == <<other_settings, frame_warning, flags, wizard>>

FurtherUnused ==
    /\ other_settings = DefaultSettings
    /\ frame_warning = NoFrameWarning
    /\ flags = NoFlags
    /\ wizard = NoWizard

others == <<cli, registry, normalization, further>>

NotCalled == [raised |-> FALSE, diagnostics |-> <<>>]

\* raw_data is supplied with the documents that declare no concept and with
\* the manifests of the sharing family
Requests ==
    (Manifests \X {None})
    \cup (({m \in DocumentFamily : m.concepts = <<>>} \cup SharedSourceFamily) \X RawDatas)

Init ==
    /\ \E request \in Requests :
           /\ manifest = request[1]
           /\ raw_data = request[2]
    /\ include_warnings \in BOOLEAN
    /\ pc = "start"
    /\ result = NotCalled
    /\ result2 = NotCalled
    /\ expr = None
    /\ expr_diagnostics = <<>>
    /\ FurtherUnused
    /\ cli = NoCommand
    /\ registry = NoRegistry
    /\ normalization = NoNormalization

Iterations(raw) == IF IsNone(raw) THEN {<<>>} ELSE SetIterations(unknown_fields(Val(raw)))

\* validate_manifest(manifest, include_warnings=..., raw_data=...)
Validate ==
    /\ pc = "start"
    /\ \E iteration \in Iterations(raw_data) :
           result' = validate_manifest(manifest, include_warnings, raw_data, iteration)
    /\ pc' = "validated"
    /\ UNCHANGED <<manifest, include_warnings, raw_data, result2, expr, expr_diagnostics, others>>

\* the same call again, on the same manifest
Revalidate ==
    /\ pc = "validated"
    /\ \E iteration \in Iterations(raw_data) :
           result2' = validate_manifest(manifest, include_warnings, raw_data, iteration)
    /\ pc' = "done"
    /\ UNCHANGED <<manifest, include_warnings, raw_data, result, expr, expr_diagnostics, others>>

Next == Validate \/ Revalidate

Spec == Init /\ [][Next]_vars

\* validate_expr called on its own, with the default path
InitExpr ==
    /\ manifest = ValidManifest(<<BaseFrame>>, <<>>)
    /\ raw_data = None
    /\ include_warnings = TRUE
    /\ pc = "expr"
    /\ result = NotCalled
    /\ result2 = NotCalled
    /\ expr \in Exprs
    /\ expr_diagnostics = <<>>
    /\ FurtherUnused
    /\ cli = NoCommand
    /\ registry = NoRegistry
    /\ normalization = NoNormalization

ValidateExpr ==
    /\ pc = "expr"
    /\ expr_diagnostics' = validate_expr(expr, S_expr)
    /\ pc' = "expr_done"
    /\ UNCHANGED <<manifest, include_warnings, raw_data, result, result2, expr, others>>

NextExpr == ValidateExpr

SpecExpr == InitExpr /\ [][NextExpr]_vars

\* validate_manifest called with warnings and then without them, for the same
\* manifest and raw_data
InitWarnings ==
    /\ \E request \in Requests :
           /\ manifest = request[1]
           /\ raw_data = request[2]
    /\ include_warnings = TRUE
    /\ pc = "with_warnings"
    /\ result = NotCalled
    /\ result2 = NotCalled
    /\ expr = None
    /\ expr_diagnostics = <<>>
    /\ FurtherUnused
    /\ cli = NoCommand
    /\ registry = NoRegistry
    /\ normalization = NoNormalization

ValidateWithWarnings ==
    /\ pc = "with_warnings"
    /\ \E iteration \in Iterations(raw_data) :
           result' = validate_manifest(manifest, TRUE, raw_data, iteration)
    /\ include_warnings' = FALSE
    /\ pc' = "without_warnings"
    /\ UNCHANGED <<manifest, raw_data, result2, expr, expr_diagnostics, others>>

ValidateWithoutWarnings ==
    /\ pc = "without_warnings"
    /\ result2' = validate_manifest(manifest, FALSE, raw_data, <<>>)
    /\ pc' = "both_called"
    /\ UNCHANGED <<manifest, include_warnings, raw_data, result, expr, expr_diagnostics, others>>

NextWarnings == ValidateWithWarnings \/ ValidateWithoutWarnings

SpecWarnings == InitWarnings /\ [][NextWarnings]_vars

\* the validate command run on a manifest file
RequiredKeys == {S_manifest_version, S_schema_version, S_frames}

Documents ==
    (Manifests \X {RequiredKeys})
    \cup (DocumentFamily \X {RequiredKeys \cup {S_concepts, K_extra, K_custom},
                             {S_manifest_version, S_frames}})

\* the documents that are validated with --json
JsonDocuments ==
    ((DocumentFamily \cup FrameFamily) \X {RequiredKeys})
    \cup (DocumentFamily \X {RequiredKeys \cup {S_concepts, K_extra, K_custom},
                             {S_manifest_version, S_frames}})

\* a file that is missing or is not YAML is tried with and without --json; a
\* file that parses holds one of the documents
InitCli ==
    /\ \E json_output \in BOOLEAN :
           \/ /\ \E document \in (IF json_output THEN JsonDocuments ELSE Documents) :
                     /\ manifest = document[1]
                     /\ raw_data = Some(document[2])
              /\ cli = [NoCommand EXCEPT !.json_output = json_output]
           \/ /\ manifest = ValidManifest(<<BaseFrame>>, <<>>)
              /\ raw_data = Some(RequiredKeys)
              /\ \E file_exists, yaml_parses \in BOOLEAN :
                     /\ ~(file_exists /\ yaml_parses)
                     /\ cli = [NoCommand EXCEPT !.file_exists = file_exists,
                                                !.yaml_parses = yaml_parses,
                                                !.json_output = json_output]
    /\ include_warnings = TRUE
    /\ pc = "command"
    /\ result = NotCalled
    /\ result2 = NotCalled
    /\ expr = None
    /\ expr_diagnostics = <<>>
    /\ FurtherUnused
    /\ registry = NoRegistry
    /\ normalization = NoNormalization

\* the whole command; result keeps what validate_manifest returned when the
\* command got that far
ValidateCommand ==
    /\ pc = "command"
    /\ \E iteration \in Iterations(raw_data) :
           \E called \in {IF cli.file_exists /\ cli.yaml_parses
                              /\ ~model_validate_raises(manifest, Val(raw_data))
                           THEN validate_manifest(manifest, TRUE, raw_data, iteration)
                           ELSE NotCalled} :
               /\ result' = called
               /\ cli' = [file_exists |-> cli.file_exists, yaml_parses |-> cli.yaml_parses,
                          json_output |-> cli.json_output]
                         @@ validate(cli.file_exists, cli.yaml_parses, manifest,
                                     Val(raw_data), cli.json_output, called)
    /\ pc' = "exited"
    /\ UNCHANGED <<manifest, include_warnings, raw_data, result2, expr, expr_diagnostics,
                   registry, normalization, further>>

NextCli == ValidateCommand

SpecCli == InitCli /\ [][NextCli]_vars

(***************************************************************************)
(* The registry functions, each applied to a manifest and to a reordering  *)
(* of it. The manifests are built with the models, so every hook has a     *)
(* concept and a source that are strings.                                  *)
(***************************************************************************)
MaxRegistryHooks == 2

RegistryHook(concept, qualifier, source, tenant) ==
    Hook(Some(S_hk_prefix \o concept), Some(S_foreign), Some(concept), qualifier,
         Some(source), tenant, Some(E_x))

RegistryHooks ==
    {RegistryHook(C_a, None, SRC_S, None),
     RegistryHook(C_a, Some(Q_q), SRC_S, None),
     RegistryHook(C_a, Some(<<>>), SRC_S, None),
     RegistryHook(C_a, None, SRC_lower_s, None),
     RegistryHook(C_a, Some(Q_q), SRC_S, Some(T_T))}

RegistryFollowers ==
    {Frame(FN_f_b, BaseSource, Some(<<RegistryHook(C_b, None, SRC_lower_s, Some(<<>>)),
                                      BaseHook(C_a)>>)),
     Frame(FN_f_b, BaseSource, Some(<<RegistryHook(C_b, Some(Q_q), SRC_S, Some(T_T))>>))}

RegistryManifests ==
    {ValidManifest(<<Frame(FN_f_a, BaseSource, Some(hooks))>> \o rest, <<>>) :
        hooks \in SeqsUpTo(RegistryHooks, MaxRegistryHooks),
        rest \in SeqsUpTo(RegistryFollowers, MaxFrames - 1)}

\* the rearrangements of a list
Rearranged(list) ==
    {[k \in DOMAIN list |-> list[p[k]]] :
        p \in {q \in [DOMAIN list -> DOMAIN list] :
                  \A i, j \in DOMAIN list : q[i] = q[j] => i = j}}

\* the frames that differ from frame in the order of the hooks
HooksRearranged(frame) ==
    {[frame EXCEPT !.hooks = Some(hooks)] : hooks \in Rearranged(HooksOf(frame))}

\* the lists of frames that differ from frames in the order of the hooks
RECURSIVE EachRearranged(_)
EachRearranged(frames) ==
    IF frames = <<>> THEN {<<>>}
    ELSE {<<first>> \o rest : first \in HooksRearranged(Head(frames)),
                              rest \in EachRearranged(Tail(frames))}

\* the manifests that differ from m in the order of the frames and in the
\* order of the hooks within a frame
Reorderings(m) ==
    {[m EXCEPT !.frames = frames] :
        frames \in UNION {EachRearranged(order) : order \in Rearranged(m.frames)}}

InitRegistry ==
    /\ manifest \in RegistryManifests
    /\ \E reordered \in Reorderings(manifest) :
           registry = [NoRegistry EXCEPT !.given = manifest, !.reordered = reordered]
    /\ include_warnings = TRUE
    /\ raw_data = None
    /\ pc = "registry"
    /\ result = NotCalled
    /\ result2 = NotCalled
    /\ expr = None
    /\ expr_diagnostics = <<>>
    /\ FurtherUnused
    /\ cli = NoCommand
    /\ normalization = NoNormalization

\* derive_key_sets(manifest), for the manifest and for its reordering
DeriveKeySets ==
    /\ pc = "registry"
    /\ "derive_key_sets" \notin registry.called
    /\ registry' = [registry EXCEPT
                       !.called = @ \cup {"derive_key_sets"},
                       !.key_sets = derive_key_sets(manifest),
                       !.key_sets_reordered = derive_key_sets(registry.reordered)]
    /\ UNCHANGED <<manifest, include_warnings, raw_data, pc, result, result2,
                   expr, expr_diagnostics, cli, normalization, further>>

\* derive_concepts(manifest), for the manifest and for its reordering
DeriveConcepts ==
    /\ pc = "registry"
    /\ "derive_concepts" \notin registry.called
    /\ registry' = [registry EXCEPT
                       !.called = @ \cup {"derive_concepts"},
                       !.concepts = derive_concepts(manifest),
                       !.concepts_reordered = derive_concepts(registry.reordered)]
    /\ UNCHANGED <<manifest, include_warnings, raw_data, pc, result, result2,
                   expr, expr_diagnostics, cli, normalization, further>>

NextRegistry == DeriveKeySets \/ DeriveConcepts

SpecRegistry == InitRegistry /\ [][NextRegistry]_vars

(***************************************************************************)
(* The normalization predicates applied to strings: hook names built of a  *)
(* prefix, pieces of segments and a last character; versions built of a    *)
(* first character, pieces of digits and dots and an ending. A version is  *)
(* also given to validate_manifest as manifest_version or schema_version   *)
(* of an otherwise valid manifest.                                         *)
(***************************************************************************)
MaxNamePieces == 5

MaxVersionPieces == 5

NamePrefixes == {S_hk_prefix, S_wk_prefix, <<"_","h","k","_">>,
                 <<"x","_","h","k","_","_">>, <<>>}

NamePieces == {<<"a">>, <<"1">>, <<"_">>, <<"_","_">>}

NameEndings == {<<>>, <<"\n">>, <<"A">>}

NameStrings ==
    {prefix \o Flatten(pieces) \o ending :
        prefix \in NamePrefixes, pieces \in SeqsUpTo(NamePieces, MaxNamePieces),
        ending \in NameEndings}

VersionStarts == {<<>>, <<"v">>, <<" ">>}

VersionPieces == {<<"1">>, <<"1","0">>, <<".">>}

VersionEndings == {<<>>, <<"\n">>, <<"\n","\n">>, <<"-","a">>, <<"+","1">>}

VersionStrings ==
    {start \o Flatten(pieces) \o ending :
        start \in VersionStarts, pieces \in SeqsUpTo(VersionPieces, MaxVersionPieces),
        ending \in VersionEndings}

InitNames ==
    /\ \/ /\ \E s \in NameStrings :
                 normalization = [NoNormalization EXCEPT !.kind = "hook_name", !.s = s]
          /\ manifest = ValidManifest(<<BaseFrame>>, <<>>)
       \/ \E s \in VersionStrings :
              /\ normalization = [NoNormalization EXCEPT !.kind = "version", !.s = s]
              /\ manifest \in {Manifest(s, V_1_0_0, DefaultSettings, <<BaseFrame>>, <<>>),
                               Manifest(V_1_0_0, s, DefaultSettings, <<BaseFrame>>, <<>>)}
    /\ include_warnings = TRUE
    /\ raw_data = None
    /\ pc = "names"
    /\ result = NotCalled
    /\ result2 = NotCalled
    /\ expr = None
    /\ expr_diagnostics = <<>>
    /\ FurtherUnused
    /\ cli = NoCommand
    /\ registry = NoRegistry

\* is_valid_hook_name(s)
IsValidHookName ==
    /\ pc = "names"
    /\ normalization.kind = "hook_name"
    /\ normalization.hook_name = None
    /\ normalization' = [normalization EXCEPT
                            !.hook_name = Some(is_valid_hook_name(Some(normalization.s)))]
    /\ UNCHANGED <<manifest, include_warnings, raw_data, pc, result, result2,
                   expr, expr_diagnostics, cli, registry, further>>

\* is_valid_semver(s)
IsValidSemver ==
    /\ pc = "names"
    /\ normalization.kind = "version"
    /\ normalization.semver = None
    /\ normalization' = [normalization EXCEPT
                            !.semver = Some(is_valid_semver(Some(normalization.s)))]
    /\ UNCHANGED <<manifest, include_warnings, raw_data, pc, result, result2,
                   expr, expr_diagnostics, cli, registry, further>>

\* validate_manifest(manifest) for the manifest that carries the version
ValidateVersions ==
    /\ pc = "names"
    /\ normalization.kind = "version"
    /\ normalization.semver # None
    /\ result' = validate_manifest(manifest, include_warnings, raw_data, <<>>)
    /\ pc' = "versions_validated"
    /\ UNCHANGED <<manifest, include_warnings, raw_data, result2,
                   expr, expr_diagnostics, cli, registry, normalization, further>>

NextNames == IsValidHookName \/ IsValidSemver \/ ValidateVersions

SpecNames == InitNames /\ [][NextNames]_vars

(***************************************************************************)
(* warn_no_primary_only_foreign is not called by validate_manifest; here   *)
(* it is called on its own for one frame of a manifest that                *)
(* validate_manifest also checks.                                          *)
(***************************************************************************)
RoleManifests ==
    StructFamily
    \cup {ValidManifest(<<Frame(FN_f_a, BaseSource,
                               Some(<<[BaseHook(C_a) EXCEPT !.role = role]>> \o more))>>, <<>>) :
             role \in HookRoles, more \in {<<>>, <<BaseHook(C_b)>>}}

InitFrameWarning ==
    /\ manifest \in RoleManifests
    /\ raw_data = None
    /\ include_warnings \in BOOLEAN
    /\ pc = "start"
    /\ result = NotCalled
    /\ result2 = NotCalled
    /\ expr = None
    /\ expr_diagnostics = <<>>
    /\ cli = NoCommand
    /\ registry = NoRegistry
    /\ normalization = NoNormalization
    /\ other_settings = DefaultSettings
    /\ frame_warning = NoFrameWarning
    /\ flags = NoFlags
    /\ wizard = NoWizard

\* warn_no_primary_only_foreign(frame, path) for frame i of the manifest
WarnNoPrimaryOnlyForeign ==
    /\ ~frame_warning.called
    /\ \E i \in DOMAIN manifest.frames :
           frame_warning' =
               [frame |-> i, called |-> TRUE,
                diagnostics |-> warn_no_primary_only_foreign(manifest.frames[i], FramePath(i))]
    /\ UNCHANGED <<manifest, include_warnings, raw_data, pc, result, result2, expr,
                   expr_diagnostics, cli, registry, normalization, other_settings, flags,
                   wizard>>

NextFrameWarning == Validate \/ WarnNoPrimaryOnlyForeign

SpecFrameWarning == InitFrameWarning /\ [][NextFrameWarning]_vars

(***************************************************************************)
(* validate_manifest for one manifest under two settings objects           *)
(***************************************************************************)
\* a hook name that follows the custom prefix of CustomSettings
N_custom_a == <<"k","_","a">>

CustomSettings == Settings(<<"k","_">>, <<"w","_">>, <<",">>)

SwappedSettings == Settings(S_wk_prefix, S_hk_prefix, <<"|">>)

SettingsChoices == {DefaultSettings, CustomSettings, SwappedSettings}

SettingsManifests ==
    {Manifest(V_1_0_0, V_1_0_0, settings,
              <<Frame(FN_f_a, BaseSource,
                      Some(<<BaseHook(C_b), [BaseHook(C_a) EXCEPT !.name = Some(name)]>>))>>,
              concepts) :
        settings \in SettingsChoices,
        name \in {N_hk_a, N_wk_a, N_custom_a, N_plain_a},
        concepts \in ConceptChoices}

InitSettings ==
    /\ manifest \in SettingsManifests
    /\ other_settings \in SettingsChoices
    /\ raw_data = None
    /\ include_warnings \in BOOLEAN
    /\ pc = "settings"
    /\ result = NotCalled
    /\ result2 = NotCalled
    /\ expr = None
    /\ expr_diagnostics = <<>>
    /\ cli = NoCommand
    /\ registry = NoRegistry
    /\ normalization = NoNormalization
    /\ frame_warning = NoFrameWarning
    /\ flags = NoFlags
    /\ wizard = NoWizard

\* validate_manifest(manifest, include_warnings=...)
ValidateSettings ==
    /\ pc = "settings"
    /\ result' = validate_manifest(manifest, include_warnings, raw_data, <<>>)
    /\ pc' = "other_settings"
    /\ UNCHANGED <<manifest, include_warnings, raw_data, result2, expr, expr_diagnostics,
                   others>>

\* the same call for the manifest that differs in settings only
ValidateOtherSettings ==
    /\ pc = "other_settings"
    /\ result2' = validate_manifest([manifest EXCEPT !.settings = other_settings],
                                    include_warnings, raw_data, <<>>)
    /\ pc' = "both_settings"
    /\ UNCHANGED <<manifest, include_warnings, raw_data, result, expr, expr_diagnostics,
                   others>>

NextSettings == ValidateSettings \/ ValidateOtherSettings

SpecSettings == InitSettings /\ [][NextSettings]_vars

(***************************************************************************)
(* Non-interactive init: "dot init --concept C --source S" builds a        *)
(* manifest from the two flags; the manifest is then validated.            *)
(***************************************************************************)
MaxConceptPieces == 3
MaxSourcePieces == 2

S_wk == <<"_","w","k">>

S_hk == <<"_","h","k">>

\* generate_hook_name(concept, qualifier=None, is_weak=False)
generate_hook_name(concept, qualifier, is_weak) ==
    LET prefix == IF is_weak THEN S_wk ELSE S_hk
        parts  == <<prefix, Lower(concept)>>
                  \o (IF Truthy(qualifier) THEN <<Lower(Val(qualifier))>> ELSE <<>>)
    IN  Join(parts, <<"_","_">>)

\* build_manifest_from_flags(concept, source)
build_manifest_from_flags(concept, source) ==
    LET frame_name == <<"f","r","a","m","e",".">> \o concept \o <<"s">>
        relation   == <<"r","a","w",".">> \o concept \o <<"s">>
        hook_name  == generate_hook_name(concept, None, FALSE)
        expr_      == concept \o <<"_","i","d">>
        hook       == Hook(Some(hook_name), Some(S_primary), Some(concept), None,
                           Some(source), None, Some(expr_))
        frame      == Frame(frame_name, Some(Source(Some(relation), None)), Some(<<hook>>))
    IN  Manifest(V_1_0_0, V_1_0_0, DefaultSettings, <<frame>>, <<>>)

\* the values of --concept: the lower_snake_case strings of up to
\* MaxConceptPieces characters
ConceptPieces == {"a", "b", "1", "_"}

FlagConcepts ==
    {c \in SeqsUpTo(ConceptPieces, MaxConceptPieces) : is_lower_snake_case(Some(c))}

\* the values of --source: the UPPER_SNAKE_CASE strings of up to
\* MaxSourcePieces characters
SourcePieces == {"S", "1", "_"}

FlagSources ==
    {c \in SeqsUpTo(SourcePieces, MaxSourcePieces) : is_upper_snake_case(Some(c))}

\* no manifest is built yet
NoManifest == Manifest(V_1_0_0, V_1_0_0, DefaultSettings, <<>>, <<>>)

InitFlags ==
    /\ \E concept \in FlagConcepts, source \in FlagSources :
           flags = [concept |-> concept, source |-> source, built |-> FALSE]
    /\ manifest = NoManifest
    /\ raw_data = None
    /\ include_warnings \in BOOLEAN
    /\ pc = "flags"
    /\ result = NotCalled
    /\ result2 = NotCalled
    /\ expr = None
    /\ expr_diagnostics = <<>>
    /\ cli = NoCommand
    /\ registry = NoRegistry
    /\ normalization = NoNormalization
    /\ other_settings = DefaultSettings
    /\ frame_warning = NoFrameWarning
    /\ wizard = NoWizard

\* manifest = build_manifest_from_flags(concept, source)
BuildManifestFromFlags ==
    /\ pc = "flags"
    /\ manifest' = build_manifest_from_flags(flags.concept, flags.source)
    /\ flags' = [flags EXCEPT !.built = TRUE]
    /\ pc' = "flags_built"
    /\ UNCHANGED <<include_warnings, raw_data, result, result2, expr, expr_diagnostics,
                   cli, registry, normalization, other_settings, frame_warning, wizard>>

\* validate_manifest(manifest, include_warnings=...) on the built manifest
ValidateBuilt ==
    /\ pc = "flags_built"
    /\ result' = validate_manifest(manifest, include_warnings, raw_data, <<>>)
    /\ pc' = "flags_validated"
    /\ UNCHANGED <<manifest, include_warnings, raw_data, result2, expr, expr_diagnostics,
                   cli, registry, normalization, further>>

NextFlags == BuildManifestFromFlags \/ ValidateBuilt

SpecFlags == InitFlags /\ [][NextFlags]_vars

(***************************************************************************)
(* The interactive wizard of init_command. wizard.state is the module      *)
(* global _wizard_state, wizard.frame the local variable of                *)
(* wizard_add_frame, wizard.files the content of the files the command     *)
(* writes. A prompt is answered with a value its validator accepts; SIGINT *)
(* arrives at any step until the process has ended.                        *)
(***************************************************************************)
MaxWizardFrames == 2
MaxWizardHooks == 2

DRAFT_FILE == <<".","d","o","t","-","d","r","a","f","t",".","y","a","m","l">>

DEFAULT_OUTPUT == <<".","d","o","t","-","o","r","g","a","n","i","z","e",".","y","a","m","l">>

\* class WizardFrame
WizardFrame(name, source_type, source_value, hooks) ==
    [name |-> name, source_type |-> source_type, source_value |-> source_value,
     hooks |-> hooks]

EmptyWizardFrame == WizardFrame(<<>>, "relation", <<>>, <<>>)

\* class WizardState
WizardState(frames, current_step, is_complete) ==
    [frames |-> frames, current_step |-> current_step, is_complete |-> is_complete]

\* "f.name and f.source_value and f.hooks"
IsCompleteFrame(f) == f.name # <<>> /\ f.source_value # <<>> /\ f.hooks # <<>>

\* every frame counts
wizard_state_has_meaningful_data_always(state) == TRUE

wizard_state_has_meaningful_data(state) ==
    \E k \in DOMAIN state.frames : IsCompleteFrame(state.frames[k])

\* [f for f in state.frames if f.name and f.source_value and f.hooks]
RECURSIVE CompleteFrames(_)
CompleteFrames(frames) ==
    IF frames = <<>> THEN <<>>
    ELSE (IF IsCompleteFrame(Head(frames)) THEN <<Head(frames)>> ELSE <<>>)
         \o CompleteFrames(Tail(frames))

\* the dictionary that yaml.dump writes as the draft
wizard_state_to_dict(state) ==
    [manifest_version |-> V_1_0_0,
     schema_version |-> V_1_0_0,
     frames |-> [k \in DOMAIN CompleteFrames(state.frames) |->
                    LET f == CompleteFrames(state.frames)[k]
                    IN  [name |-> f.name,
                         source |-> <<f.source_type, f.source_value>>,
                         hooks |-> f.hooks]],
     _wizard_meta |-> [current_step |-> state.current_step,
                       is_complete |-> state.is_complete]]

\* build_manifest(state)
build_manifest(state) ==
    Manifest(V_1_0_0, V_1_0_0, DefaultSettings,
             [k \in DOMAIN CompleteFrames(state.frames) |->
                 LET wf == CompleteFrames(state.frames)[k]
                 IN  Frame(wf.name,
                           Some(IF wf.source_type = "relation"
                                THEN Source(Some(wf.source_value), None)
                                ELSE Source(None, Some(wf.source_value))),
                           Some([j \in DOMAIN wf.hooks |->
                                    [wf.hooks[j] EXCEPT
                                        !.role = IF wf.hooks[j].role = Some(S_primary)
                                                 THEN Some(S_primary)
                                                 ELSE Some(S_foreign)]]))],
             <<>>)

\* a file that does not exist, and the content of a file that exists before
\* the command runs
NoFile == [kind |-> "absent"]

OriginalContent == [kind |-> "original"]

WizardPaths == {DEFAULT_OUTPUT, DRAFT_FILE}

\* the hook dictionary that wizard_add_frame appends
WizardHook(role, concept) ==
    Hook(Some(generate_hook_name(concept, None, FALSE)), Some(role), Some(concept), None,
         Some(SRC_S), None, Some(concept \o <<"_","i","d">>))

\* save_draft(): the files afterwards
save_draft(state, files) ==
    IF IsNone(state) THEN files
    ELSE IF ~wizard_state_has_meaningful_data(Val(state)) THEN files
    ELSE [files EXCEPT ![DRAFT_FILE] = [kind |-> "draft", content |-> wizard_state_to_dict(Val(state))]]

InitWizard ==
    /\ \E output_path \in WizardPaths, files \in [WizardPaths -> {NoFile, OriginalContent}] :
           wizard = [step |-> "installed", state |-> None, frame |-> EmptyWizardFrame,
                     frame_number |-> 1, output_path |-> output_path,
                     files |-> files, files_before |-> files,
                     overwrite |-> "unasked", write |-> "unasked",
                     interrupted |-> FALSE, exit_code |-> -1]
    /\ manifest = NoManifest
    /\ raw_data = None
    /\ include_warnings = TRUE
    /\ pc = "wizard"
    /\ result = NotCalled
    /\ result2 = NotCalled
    /\ expr = None
    /\ expr_diagnostics = <<>>
    /\ cli = NoCommand
    /\ registry = NoRegistry
    /\ normalization = NoNormalization
    /\ other_settings = DefaultSettings
    /\ frame_warning = NoFrameWarning
    /\ flags = NoFlags

WizardUnchanged ==
    UNCHANGED <<manifest, include_warnings, raw_data, pc, result, result2, expr,
                expr_diagnostics, cli, registry, normalization, other_settings,
                frame_warning, flags>>

Running == pc = "wizard" /\ wizard.exit_code = -1

\* _wizard_state = WizardState()
CreateWizardState ==
    /\ Running /\ wizard.step = "installed"
    /\ wizard' = [wizard EXCEPT !.state = Some(WizardState(<<>>, <<"s","t","a","r","t">>, FALSE)),
                                !.step = "begin"]
    /\ WizardUnchanged

\* _wizard_state = wizard_state_with_step(...); frame = WizardFrame()
BeginFrame ==
    /\ Running /\ wizard.step = "begin"
    /\ wizard' = [wizard EXCEPT
                     !.state = Some([Val(wizard.state) EXCEPT
                                        !.current_step = <<"f","r","a","m","e","_">>
                                                         \o IntToStr(wizard.frame_number)]),
                     !.frame = EmptyWizardFrame,
                     !.step = "name"]
    /\ WizardUnchanged

\* frame = wizard_frame_with_name(frame, name): the first frame is named f.a,
\* the later ones f.b
EnterName ==
    /\ Running /\ wizard.step = "name"
    /\ \E name \in {IF wizard.frame_number = 1 THEN FN_f_a ELSE FN_f_b} :
           wizard' = [wizard EXCEPT !.frame.name = name, !.step = "source"]
    /\ WizardUnchanged

\* frame = wizard_frame_with_source(frame, source_type, source_value)
EnterSource ==
    /\ Running /\ wizard.step = "source"
    /\ \E source_type \in {"relation", "path"} :
           wizard' = [wizard EXCEPT !.frame.source_type = source_type,
                                    !.frame.source_value = REL_r_a,
                                    !.step = "hook"]
    /\ WizardUnchanged

\* frame = wizard_frame_add_hook(frame, {...}): primary hooks first, then
\* foreign hooks
AddHook ==
    /\ Running /\ wizard.step = "hook"
    /\ \E role \in {S_primary, S_foreign} :
           /\ role = S_foreign => wizard.frame.hooks # <<>>
           /\ role = S_primary =>
                  \A j \in DOMAIN wizard.frame.hooks :
                      wizard.frame.hooks[j].role = Some(S_primary)
           /\ wizard' = [wizard EXCEPT
                            !.frame.hooks = Append(@, WizardHook(role, C_a)),
                            !.step = "more_hooks"]
    /\ WizardUnchanged

\* "Add another primary hook?", "Add foreign hooks?", "Add another foreign
\* hook?": one more hook, or wizard_add_frame returns
AnswerMoreHooks ==
    /\ Running /\ wizard.step = "more_hooks"
    /\ \E more \in BOOLEAN :
           /\ more => Len(wizard.frame.hooks) < MaxWizardHooks
           /\ wizard' = [wizard EXCEPT !.step = IF more THEN "hook" ELSE "returned"]
    /\ WizardUnchanged

\* _wizard_state = wizard_state_add_frame(_wizard_state, frame)
AddFrame ==
    /\ Running /\ wizard.step = "returned"
    /\ wizard' = [wizard EXCEPT
                     !.state = Some([Val(wizard.state) EXCEPT
                                        !.frames = Append(@, wizard.frame)]),
                     !.step = "another"]
    /\ WizardUnchanged

\* "Add another frame?"; after the last frame "if output_path.exists():"
AnswerAnother ==
    /\ Running /\ wizard.step = "another"
    /\ \E another \in BOOLEAN :
           /\ another => wizard.frame_number < MaxWizardFrames
           /\ wizard' = [wizard EXCEPT
                            !.frame_number = IF another THEN @ + 1 ELSE @,
                            !.step = IF another THEN "begin"
                                     ELSE IF wizard.files[wizard.output_path] # NoFile
                                          THEN "overwrite" ELSE "write"]
    /\ WizardUnchanged

\* "Overwrite?": no raises typer.Exit(0)
AnswerOverwrite ==
    /\ Running /\ wizard.step = "overwrite"
    /\ \E yes \in BOOLEAN :
           wizard' = [wizard EXCEPT
                         !.overwrite = IF yes THEN "yes" ELSE "no",
                         !.step = IF yes THEN "write" ELSE "exited",
                         !.exit_code = IF yes THEN @ ELSE 0]
    /\ WizardUnchanged

\* "Write manifest?": no raises typer.Exit(0)
AnswerWrite ==
    /\ Running /\ wizard.step = "write"
    /\ \E yes \in BOOLEAN :
           wizard' = [wizard EXCEPT
                         !.write = IF yes THEN "yes" ELSE "no",
                         !.step = IF yes THEN "writing" ELSE "exited",
                         !.exit_code = IF yes THEN @ ELSE 0]
    /\ WizardUnchanged

\* manifest = build_manifest(_wizard_state); write_manifest(manifest, ...)
WriteManifest ==
    /\ Running /\ wizard.step = "writing"
    /\ wizard' = [wizard EXCEPT
                     !.files[wizard.output_path] =
                         [kind |-> "manifest", content |-> build_manifest(Val(wizard.state))],
                     !.step = "written"]
    /\ manifest' = build_manifest(Val(wizard.state))
    /\ UNCHANGED <<include_warnings, raw_data, pc, result, result2, expr,
                   expr_diagnostics, cli, registry, normalization, other_settings,
                   frame_warning, flags>>

\* _wizard_state = wizard_state_mark_complete(_wizard_state); the command
\* returns
MarkComplete ==
    /\ Running /\ wizard.step = "written"
    /\ wizard' = [wizard EXCEPT
                     !.state = Some([Val(wizard.state) EXCEPT !.is_complete = TRUE]),
                     !.step = "exited",
                     !.exit_code = 0]
    /\ WizardUnchanged

\* sigint_handler: save_draft(), then sys.exit(130)
Sigint ==
    /\ Running
    /\ wizard' = [wizard EXCEPT
                     !.files = save_draft(wizard.state, wizard.files),
                     !.interrupted = TRUE,
                     !.exit_code = 130]
    /\ WizardUnchanged

NextWizard ==
    \/ CreateWizardState
    \/ BeginFrame
    \/ EnterName
    \/ EnterSource
    \/ AddHook
    \/ AnswerMoreHooks
    \/ AddFrame
    \/ AnswerAnother
    \/ AnswerOverwrite
    \/ AnswerWrite
    \/ WriteManifest
    \/ MarkComplete
    \/ Sigint

SpecWizard == InitWizard /\ [][NextWizard]_vars

(***************************************************************************)
(* Properties                                                              *)
(***************************************************************************)
\* the first call has returned a list
Returns == pc \in {"validated", "done"} /\ ~result.raised

Diags == result.diagnostics

\* the number of returned diagnostics with this rule_id and path
CountAt(rule_id, path) ==
    Cardinality({k \in DOMAIN Diags : Diags[k].rule_id = rule_id /\ Diags[k].path = path})

CountRule(rule_id) == Cardinality({k \in DOMAIN Diags : Diags[k].rule_id = rule_id})

\* C1: the list returned by validate_manifest is sorted by (severity rank,
\* rule_id, path): no WARN precedes an ERROR, rule_id does not decrease within
\* a severity, path does not decrease within a rule_id (plain str order).
C1_Sorted ==
    Returns =>
        \A k \in 1 .. (Len(Diags) - 1) :
            /\ Diags[k].severity = "WARN" => Diags[k + 1].severity = "WARN"
            /\ Diags[k].severity = Diags[k + 1].severity =>
                   ~StrLess(Diags[k + 1].rule_id, Diags[k].rule_id)
            /\ (Diags[k].severity = Diags[k + 1].severity
                /\ Diags[k].rule_id = Diags[k + 1].rule_id) =>
                   ~StrLess(Diags[k + 1].path, Diags[k].path)

\* an ERROR, a WARN and two diagnostics of one rule at different paths
C1_Witness ==
    /\ Returns
    /\ \E i, j \in DOMAIN Diags : Diags[i].severity = "ERROR" /\ Diags[j].severity = "WARN"
    /\ \E k \in 1 .. (Len(Diags) - 1) :
           Diags[k].rule_id = Diags[k + 1].rule_id /\ Diags[k].path # Diags[k + 1].path

\* every application of a wired rule to the manifest, a frame (i), a hook
\* (i, j) or a declared concept (i)
C2_Applications ==
    {[rule |-> r, i |-> 0, j |-> 0] :
        r \in {"validate_manifest_version", "validate_schema_version",
               "validate_no_duplicate_concepts"}}
    \cup {[rule |-> r, i |-> i, j |-> 0] :
             r \in {"validate_frame_name", "validate_frame_has_hooks",
                    "validate_frame_has_primary_hook", "validate_frame_source_present",
                    "validate_frame_source_exclusivity", "validate_frame_source_nonempty",
                    "validate_hook_name_uniqueness"},
             i \in DOMAIN manifest.frames}
    \cup UNION {{[rule |-> r, i |-> i, j |-> j] :
                    r \in {"validate_hook_required_fields", "validate_hook_name",
                           "validate_hook_role", "validate_hook_concept",
                           "validate_hook_source", "validate_hook_expr"},
                    j \in DOMAIN HooksOf(manifest.frames[i])} : i \in DOMAIN manifest.frames}
    \cup {[rule |-> r, i |-> i, j |-> 0] :
             r \in {"validate_concept_in_frames", "validate_concept_description"},
             i \in DOMAIN manifest.concepts}
    \cup (IF include_warnings
          THEN UNION {{[rule |-> "warn_weak_hook_mismatch", i |-> i, j |-> j] :
                          j \in DOMAIN HooksOf(manifest.frames[i])} :
                         i \in DOMAIN manifest.frames}
               \cup {[rule |-> "warn_too_many_hooks", i |-> i, j |-> 0] :
                        i \in DOMAIN manifest.frames}
               \cup {[rule |-> r, i |-> 0, j |-> 0] :
                        r \in {"warn_concept_count", "warn_duplicate_source",
                               "warn_too_many_frames"}}
               \cup (IF ~IsNone(raw_data)
                     THEN {[rule |-> "warn_unknown_fields", i |-> 0, j |-> 0]} ELSE {})
          ELSE {})

\* what the rule of an application returns
C2_Output(a) ==
    LET frame   == manifest.frames[a.i]
        hook    == HooksOf(manifest.frames[a.i])[a.j]
        concept == manifest.concepts[a.i]
        fp      == FramePath(a.i)
        hp      == HookPath(FramePath(a.i), a.j)
    IN  CASE a.rule = "validate_manifest_version" -> validate_manifest_version(manifest)
          [] a.rule = "validate_schema_version" -> validate_schema_version(manifest)
          [] a.rule = "validate_no_duplicate_concepts" -> validate_no_duplicate_concepts(manifest)
          [] a.rule = "validate_frame_name" -> validate_frame_name(frame, fp)
          [] a.rule = "validate_frame_has_hooks" -> validate_frame_has_hooks(frame, fp)
          [] a.rule = "validate_frame_has_primary_hook" -> validate_frame_has_primary_hook(frame, fp)
          [] a.rule = "validate_frame_source_present" -> validate_frame_source_present(frame, fp)
          [] a.rule = "validate_frame_source_exclusivity" ->
                 validate_frame_source_exclusivity(frame, fp)
          [] a.rule = "validate_frame_source_nonempty" -> validate_frame_source_nonempty(frame, fp)
          [] a.rule = "validate_hook_name_uniqueness" -> validate_hook_name_uniqueness(frame, fp)
          [] a.rule = "validate_hook_required_fields" -> validate_hook_required_fields(hook, hp)
          [] a.rule = "validate_hook_name" -> validate_hook_name(hook, hp, manifest.settings)
          [] a.rule = "validate_hook_role" -> validate_hook_role(hook, hp)
          [] a.rule = "validate_hook_concept" -> validate_hook_concept(hook, hp)
          [] a.rule = "validate_hook_source" -> validate_hook_source(hook, hp)
          [] a.rule = "validate_hook_expr" -> validate_hook_expr(hook, hp)
          [] a.rule = "validate_concept_in_frames" ->
                 validate_concept_in_frames(concept, ConceptPath(a.i), manifest)
          [] a.rule = "validate_concept_description" ->
                 validate_concept_description(concept, ConceptPath(a.i))
          [] a.rule = "warn_weak_hook_mismatch" ->
                 warn_weak_hook_mismatch(hook, hp, manifest.concepts)
          [] a.rule = "warn_too_many_hooks" -> warn_too_many_hooks(frame, fp)
          [] a.rule = "warn_concept_count" -> warn_concept_count(manifest)
          [] a.rule = "warn_duplicate_source" -> warn_duplicate_source(manifest)
          [] a.rule = "warn_too_many_frames" -> warn_too_many_frames(manifest)
          [] a.rule = "warn_unknown_fields" ->
                 warn_unknown_fields(Val(raw_data),
                     CHOOSE order \in SetIterations(unknown_fields(Val(raw_data))) : TRUE)

\* the entries of the outputs that equal d (all entries when any = TRUE)
C2_Entries(outs, d, any) ==
    UNION {{<<a, k>> : k \in {x \in DOMAIN outs[a] : any \/ outs[a][x] = d}} : a \in DOMAIN outs}

\* C2: validate_manifest never short-circuits: the returned list is a
\* permutation of the concatenation of the outputs of every wired rule applied
\* to the manifest, every frame, every hook and every declared concept.
C2_AllRulesAccumulate ==
    Returns =>
        \A outs \in {[a \in C2_Applications |-> C2_Output(a)]} :
            /\ Len(Diags) = Cardinality(C2_Entries(outs, Diags, TRUE))
            /\ \A d \in Range(Diags) :
                   Cardinality({k \in DOMAIN Diags : Diags[k] = d})
                       = Cardinality(C2_Entries(outs, d, FALSE))

\* one hook reported by two of its rules, next to a frame-level diagnostic
C2_Witness ==
    /\ Returns
    /\ \E i, j \in DOMAIN Diags :
           /\ Diags[i].rule_id = RID_HOOK_001
           /\ Diags[j].rule_id = RID_HOOK_006
           /\ StartsWith(Diags[j].path, Diags[i].path)
    /\ CountRule(RID_FRAME_003) > 0

\* C5: validate_manifest is deterministic: two calls with the same manifest,
\* include_warnings and raw_data return identical lists, also with several
\* MANIFEST-W02 warnings (built from a set) and several FRAME-W02 warnings.
C5_Deterministic == pc = "done" => result = result2

\* both calls returned two MANIFEST-W02 and two FRAME-W02 warnings
C5_Witness ==
    /\ pc = "done"
    /\ ~result.raised
    /\ CountRule(RID_MANIFEST_W02) >= 2
    /\ CountRule(RID_FRAME_W02) >= 2

\* C6: validate_manifest never raises, also when a hook's name, role, concept,
\* source or expr is missing or a frame's source or hooks is absent.
C6_NeverRaises == pc \in {"validated", "done"} => ~result.raised

\* C7: a manifest whose frames sequence is empty gets at least one diagnostic.
C7_EmptyFramesReported == (Returns /\ manifest.frames = <<>>) => Len(Diags) >= 1

NoPrimaryHook(frame) ==
    \A j \in DOMAIN HooksOf(frame) : HooksOf(frame)[j].role # Some(S_primary)

\* C8: FRAME-001 is reported (once, ERROR, at frames[i].hooks) iff frame i has
\* no hooks and FRAME-003 iff no hook of frame i has role primary; a frame
\* with an empty hooks sequence gets both.
C8_EmptyHooksBothErrors ==
    Returns =>
        \A i \in DOMAIN manifest.frames :
            LET path == FramePath(i) \o S_dot_hooks
            IN  /\ CountAt(RID_FRAME_001, path)
                       = (IF HooksOf(manifest.frames[i]) = <<>> THEN 1 ELSE 0)
                /\ CountAt(RID_FRAME_003, path)
                       = (IF NoPrimaryHook(manifest.frames[i]) THEN 1 ELSE 0)
                /\ \A k \in DOMAIN Diags :
                       (Diags[k].path = path /\ Diags[k].rule_id \in {RID_FRAME_001, RID_FRAME_003})
                           => Diags[k].severity = "ERROR"

\* the second frame has no hooks and both diagnostics are returned for it
C8_Witness ==
    /\ Returns
    /\ Len(manifest.frames) >= 2
    /\ manifest.frames[2].hooks = Some(<<>>)
    /\ CountAt(RID_FRAME_001, FramePath(2) \o S_dot_hooks) = 1
    /\ CountAt(RID_FRAME_003, FramePath(2) \o S_dot_hooks) = 1

\* the hooks of a frame whose name occurs at an earlier index of the frame
RepeatedHooks(frame) ==
    {j \in DOMAIN HooksOf(frame) :
        \E k \in 1 .. (j - 1) : HooksOf(frame)[k].name = HooksOf(frame)[j].name}

\* C9: per frame, one HOOK-007 for each hook whose name occurred at an earlier
\* index of the same frame, at frames[i].hooks[j].name, and none for a first
\* occurrence: their number is the number of hooks minus the number of
\* distinct names; a name shared by two frames is not reported.
C9_DuplicateHookNames ==
    Returns =>
        \A i \in DOMAIN manifest.frames :
            LET hooks  == HooksOf(manifest.frames[i])
                prefix == FramePath(i) \o S_dot_hooks_open
            IN  /\ Cardinality({k \in DOMAIN Diags :
                                   /\ Diags[k].rule_id = RID_HOOK_007
                                   /\ StartsWith(Diags[k].path, prefix)})
                       = Len(hooks) - Cardinality({hooks[j].name : j \in DOMAIN hooks})
                /\ \A j \in DOMAIN hooks :
                       CountAt(RID_HOOK_007, HookPath(FramePath(i), j) \o S_dot_name)
                           = (IF j \in RepeatedHooks(manifest.frames[i]) THEN 1 ELSE 0)

\* a name used three times in one frame: two diagnostics, at indices 1 and 2
C9_Witness ==
    /\ Returns
    /\ \E i \in DOMAIN manifest.frames :
           /\ Len(HooksOf(manifest.frames[i])) = 3
           /\ RepeatedHooks(manifest.frames[i]) = {2, 3}
    /\ CountRule(RID_HOOK_007) = 2

\* a numeric identifier of semver: 0, or digits that do not start with 0
NumericIdentifier(s) ==
    /\ s # <<>>
    /\ \A k \in DOMAIN s : s[k] \in Range(DigitChars)
    /\ Len(s) > 1 => s[1] # "0"

\* the whole string is MAJOR.MINOR.PATCH
StrictSemver(v) ==
    \E a, b \in DOMAIN v :
        /\ a < b
        /\ v[a] = "."
        /\ v[b] = "."
        /\ NumericIdentifier(SubSeq(v, 1, a - 1))
        /\ NumericIdentifier(SubSeq(v, a + 1, b - 1))
        /\ NumericIdentifier(SubSeq(v, b + 1, Len(v)))

LowerStr(s) == [k \in DOMAIN s |-> ToLowerChar[s[k]]]

\* word, in any case, stands in s from position p to q - 1
StandsAt(word, s, p, q) ==
    /\ q = p + Len(word)
    /\ q <= Len(s) + 1
    /\ LowerStr(SubSeq(s, p, q - 1)) = LowerStr(word)

\* no word character before position p and none at position q
WholeWord(s, p, q) ==
    /\ p = 1 \/ s[p - 1] \notin WordChars
    /\ q = Len(s) + 1 \/ s[q] \notin WordChars

\* a forbidden keyword occurs in s as a whole word, in any case; GROUP BY and
\* ORDER BY are two words with whitespace between them
Occurs(name, s) ==
    IF name \in {KW_GROUP_BY, KW_ORDER_BY}
    THEN \E p, q \in 1 .. (Len(s) + 1) :
             /\ StandsAt(SubSeq(name, 1, 5), s, p, p + 5)
             /\ q > p + 5
             /\ \A k \in (p + 5) .. (q - 1) : s[k] \in Whitespace
             /\ StandsAt(KW_BY, s, q, q + 2)
             /\ WholeWord(s, p, q + 2)
    ELSE \E p \in 1 .. (Len(s) + 1) :
             /\ StandsAt(name, s, p, p + Len(name))
             /\ WholeWord(s, p, p + Len(name))

ForbiddenKeywords ==
    {KW_SELECT, KW_FROM, KW_JOIN, KW_WHERE, KW_GROUP_BY, KW_ORDER_BY, KW_WITH,
     KW_RANDOM, KW_NEWID, KW_GETDATE, KW_NOW, KW_CURRENT_TIMESTAMP, KW_SYSDATE,
     KW_INSERT, KW_UPDATE, KW_DELETE, KW_CREATE, KW_DROP, KW_ALTER, KW_TRUNCATE}

\* the data-model invariants of a frame
FrameInvariants(frame) ==
    /\ ~IsNone(frame.source)
    /\ \/ /\ ~IsNone(Val(frame.source).relation)
          /\ IsNone(Val(frame.source).path)
          /\ Val(Val(frame.source).relation) # <<>>
       \/ /\ IsNone(Val(frame.source).relation)
          /\ ~IsNone(Val(frame.source).path)
          /\ Val(Val(frame.source).path) # <<>>
    /\ HooksOf(frame) # <<>>
    /\ ~NoPrimaryHook(frame)
    /\ RepeatedHooks(frame) = {}
    /\ \A j \in DOMAIN HooksOf(frame) :
           /\ ~IsNone(HooksOf(frame)[j].expr)
           /\ ~IsBlank(Val(HooksOf(frame)[j].expr))
           /\ \A name \in ForbiddenKeywords : ~Occurs(name, Val(HooksOf(frame)[j].expr))

\* the data-model invariants of the declared concepts
ConceptInvariants(m) ==
    /\ \A i \in DOMAIN m.concepts :
           \E f \in DOMAIN m.frames : \E j \in DOMAIN HooksOf(m.frames[f]) :
               HooksOf(m.frames[f])[j].concept = Some(m.concepts[i].name)
    /\ \A i, k \in DOMAIN m.concepts :
           m.concepts[i].name = m.concepts[k].name => i = k

\* C3: when validate_manifest returns no ERROR diagnostic the manifest
\* satisfies the data-model invariants: both versions strict
\* MAJOR.MINOR.PATCH, every frame with a source that sets exactly one of
\* relation/path to a non-empty value, with a hook and a primary hook, hook
\* names unique per frame, every expr non-empty and free of forbidden
\* keywords, every declared concept used by a hook and declared once.
C3_NoErrorImpliesInvariants ==
    (Returns /\ ~has_errors(Diags)) =>
        /\ StrictSemver(manifest.manifest_version)
        /\ StrictSemver(manifest.schema_version)
        /\ \A i \in DOMAIN manifest.frames : FrameInvariants(manifest.frames[i])
        /\ ConceptInvariants(manifest)

\* the diagnostics of the rules other than the two version rules
C4_OtherEntries ==
    UNION {{<<a, k>> : k \in DOMAIN C2_Output(a)} :
              a \in {x \in C2_Applications :
                        x.rule \notin {"validate_manifest_version", "validate_schema_version"}}}

\* the frames in the condition of FRAME-W01: hooks, but no primary hook
C4_WithoutPrimary ==
    {i \in DOMAIN manifest.frames :
        HooksOf(manifest.frames[i]) # <<>> /\ NoPrimaryHook(manifest.frames[i])}

\* the violations of the rule table by the manifest: a version that is not
\* strict semver, a frame in the condition of FRAME-W01, and each place where
\* one of the other rules finds its condition
C4_Violations ==
    (IF StrictSemver(manifest.manifest_version) THEN {} ELSE {<<RID_MANIFEST_001>>})
    \cup (IF StrictSemver(manifest.schema_version) THEN {} ELSE {<<RID_MANIFEST_002>>})
    \cup {<<RID_FRAME_W01, i>> : i \in C4_WithoutPrimary}
    \cup {<<C2_Output(e[1])[e[2]].rule_id, e>> : e \in C4_OtherEntries}

\* C4: for a manifest with exactly one violation of the rule table,
\* validate_manifest (warnings enabled) returns exactly one diagnostic, and it
\* bears the id of the violated rule.
C4_OneViolationOneDiagnostic ==
    (Returns /\ include_warnings) =>
        \A violations \in {C4_Violations} :
            Cardinality(violations) = 1 =>
                /\ Len(Diags) = 1
                /\ \E v \in violations : Diags[1].rule_id = v[1]

\* the expression given to validate_expr, "" for None
ExprStr == IF IsNone(expr) THEN <<>> ELSE Val(expr)

\* C10: validate_expr returns at most one diagnostic: one HOOK-006 ERROR with
\* message "Expression must be non-empty" for an empty or all-whitespace expr;
\* otherwise, when forbidden keywords occur in expr (one or several), one
\* HOOK-006 ERROR naming one that occurs; otherwise the empty list.
C10_AtMostOneDiagnostic ==
    pc = "expr_done" =>
        /\ Len(expr_diagnostics) <= 1
        /\ \A d \in Range(expr_diagnostics) : d.rule_id = RID_HOOK_006 /\ d.severity = "ERROR"
        /\ IF IsBlank(ExprStr)
           THEN /\ Len(expr_diagnostics) = 1
                /\ expr_diagnostics[1].message.text = "Expression must be non-empty"
           ELSE IF \E name \in ForbiddenKeywords : Occurs(name, ExprStr)
           THEN /\ Len(expr_diagnostics) = 1
                /\ \E name \in ForbiddenKeywords :
                       /\ Occurs(name, ExprStr)
                       /\ expr_diagnostics[1].message.args = <<name>>
           ELSE expr_diagnostics = <<>>

\* SELECT and FROM both occur and one diagnostic is returned
C10_Witness ==
    /\ pc = "expr_done"
    /\ Occurs(KW_SELECT, ExprStr)
    /\ Occurs(KW_FROM, ExprStr)
    /\ Len(expr_diagnostics) = 1

\* a forbidden keyword stands somewhere in s, whole word or not
StandsIn(name, s) == \E p \in 1 .. (Len(s) + 1) : StandsAt(name, s, p, p + Len(name))

\* C11: for a non-blank expression validate_expr returns a diagnostic iff one
\* of the forbidden tokens occurs in it as a whole word, in any case; a token
\* that only stands inside a longer identifier (a letter, digit or underscore
\* next to it) causes none.
C11_WholeWordOnly ==
    (pc = "expr_done" /\ ~IsBlank(ExprStr)) =>
        (expr_diagnostics # <<>> <=> \E name \in ForbiddenKeywords : Occurs(name, ExprStr))

\* a keyword stands inside an identifier and the expression is accepted
C11_Witness ==
    /\ pc = "expr_done"
    /\ ~IsBlank(ExprStr)
    /\ \E name \in ForbiddenKeywords : StandsIn(name, ExprStr)
    /\ expr_diagnostics = <<>>

\* the declared concept k is the concept of some hook of some frame
UsedByAHook(k) ==
    \E i \in DOMAIN manifest.frames : \E j \in DOMAIN HooksOf(manifest.frames[i]) :
        HooksOf(manifest.frames[i])[j].concept = Some(manifest.concepts[k].name)

\* C12: for the declared concept at index k validate_manifest returns
\* CONCEPT-001 with path concepts[k] iff its name is the concept of no hook of
\* any frame: exactly one per unused declaration, none for a used one.
C12_UnusedConceptReported ==
    Returns =>
        /\ \A k \in DOMAIN manifest.concepts :
               CountAt(RID_CONCEPT_001, ConceptPath(k)) = (IF UsedByAHook(k) THEN 0 ELSE 1)
        /\ CountRule(RID_CONCEPT_001)
               = Cardinality({k \in DOMAIN manifest.concepts : ~UsedByAHook(k)})

\* two declarations, the first used and the second not: one CONCEPT-001
C12_Witness ==
    /\ Returns
    /\ Len(manifest.concepts) = 2
    /\ UsedByAHook(1)
    /\ ~UsedByAHook(2)
    /\ CountAt(RID_CONCEPT_001, ConceptPath(2)) = 1
    /\ CountRule(RID_CONCEPT_001) = 1

\* the hooks of the manifest, as <<frame index, hook index>>
AllHooks ==
    UNION {{<<i, j>> : j \in DOMAIN HooksOf(manifest.frames[i])} : i \in DOMAIN manifest.frames}

HookAt(h) == HooksOf(manifest.frames[h[1]])[h[2]]

PathOf(h) == HookPath(FramePath(h[1]), h[2])

\* C13 as stated: HOOK-004 is reported at <hook path>.concept iff the hook's
\* concept fails is_lower_snake_case, the empty string included, and at
\* <hook path>.qualifier iff a qualifier is given and fails it.
C13_ConceptFailsIffReported ==
    Returns =>
        \A h \in AllHooks :
            /\ CountAt(RID_HOOK_004, PathOf(h) \o S_dot_concept)
                   = (IF ~is_lower_snake_case(HookAt(h).concept) THEN 1 ELSE 0)
            /\ CountAt(RID_HOOK_004, PathOf(h) \o S_dot_qualifier)
                   = (IF ~IsNone(HookAt(h).qualifier) /\ ~is_lower_snake_case(HookAt(h).qualifier)
                      THEN 1 ELSE 0)

\* C13 amended: HOOK-004 is reported at <hook path>.concept iff the concept is
\* a non-empty string that fails is_lower_snake_case, and at
\* <hook path>.qualifier iff the qualifier is a non-empty string that fails
\* it; an empty or missing concept or qualifier gets no HOOK-004, and a hook
\* with both failing gets two.
C13_NonEmptyFailsIffReported ==
    Returns =>
        \A h \in AllHooks :
            /\ CountAt(RID_HOOK_004, PathOf(h) \o S_dot_concept)
                   = (IF /\ ~IsNone(HookAt(h).concept)
                         /\ HookAt(h).concept # Some(<<>>)
                         /\ ~is_lower_snake_case(HookAt(h).concept)
                      THEN 1 ELSE 0)
            /\ CountAt(RID_HOOK_004, PathOf(h) \o S_dot_qualifier)
                   = (IF /\ ~IsNone(HookAt(h).qualifier)
                         /\ HookAt(h).qualifier # Some(<<>>)
                         /\ ~is_lower_snake_case(HookAt(h).qualifier)
                      THEN 1 ELSE 0)

\* a hook whose concept and qualifier both fail: two HOOK-004 diagnostics
C13_Witness ==
    /\ Returns
    /\ \E h \in AllHooks :
           /\ HookAt(h).concept = Some(C_upper_A)
           /\ HookAt(h).qualifier = Some(Q_upper_Q)
           /\ CountAt(RID_HOOK_004, PathOf(h) \o S_dot_concept) = 1
           /\ CountAt(RID_HOOK_004, PathOf(h) \o S_dot_qualifier) = 1
    /\ CountRule(RID_HOOK_004) = 2

\* the top-level keys the schema knows
TopLevelKeys ==
    {S_manifest_version, S_schema_version, S_metadata, S_settings, S_frames, S_concepts}

\* the number of MANIFEST-W02 diagnostics of a list for a key
CountUnknown(diagnostics, key) ==
    Cardinality({k \in DOMAIN diagnostics :
        diagnostics[k].rule_id = RID_MANIFEST_W02 /\ diagnostics[k].path = key})

\* C14: the call with include_warnings=False returns no WARN and exactly the
\* ERROR diagnostics, in the same order, of the call with include_warnings=True
\* for the same manifest; MANIFEST-W02 is produced only with warnings enabled
\* and raw_data supplied, once per top-level key of raw_data outside the six
\* known keys.
C14_WarningsOnlyAdd ==
    (pc = "both_called" /\ ~result.raised /\ ~result2.raised) =>
        /\ \A k \in DOMAIN result2.diagnostics : result2.diagnostics[k].severity = "ERROR"
        /\ result2.diagnostics = SelectSeq(result.diagnostics, LAMBDA d : d.severity = "ERROR")
        /\ \A k \in DOMAIN result.diagnostics :
               result.diagnostics[k].rule_id = RID_MANIFEST_W02 =>
                   /\ ~IsNone(raw_data)
                   /\ result.diagnostics[k].path \in Val(raw_data) \ TopLevelKeys
        /\ ~IsNone(raw_data) =>
               \A key \in Val(raw_data) :
                   CountUnknown(result.diagnostics, key)
                       = (IF key \in TopLevelKeys THEN 0 ELSE 1)

\* errors and two MANIFEST-W02 warnings with warnings enabled, the errors
\* alone without
C14_Witness ==
    /\ pc = "both_called"
    /\ ~result.raised
    /\ ~result2.raised
    /\ result2.diagnostics # <<>>
    /\ ~IsNone(raw_data)
    /\ S_frames \in Val(raw_data)
    /\ Cardinality({k \in DOMAIN result.diagnostics :
                       result.diagnostics[k].rule_id = RID_MANIFEST_W02}) = 2
    /\ Len(result.diagnostics) = Len(result2.diagnostics) + 2

\* the command has called validate_manifest and it returned
CommandValidated ==
    /\ pc = "exited"
    /\ cli.file_exists
    /\ cli.yaml_parses
    /\ ~model_validate_raises(manifest, Val(raw_data))
    /\ ~result.raised

\* C15: for the list D returned by validate_manifest, has_errors(D) holds iff
\* D holds an ERROR; filter_errors(D) and filter_warnings(D) keep the order
\* of D and partition it, and D is filter_errors(D) followed by
\* filter_warnings(D), so the presenter prints every error before every
\* warning.
C15_ErrorsThenWarnings ==
    CommandValidated =>
        /\ (cli.exit_code = 1) <=> (\E k \in DOMAIN Diags : Diags[k].severity = "ERROR")
        /\ \A k \in DOMAIN cli.errors : cli.errors[k].severity = "ERROR"
        /\ \A k \in DOMAIN cli.warnings : cli.warnings[k].severity = "WARN"
        /\ Diags = cli.errors \o cli.warnings
        /\ ~cli.json_output => cli.printed = Diags

\* errors and warnings, printed in the order of the returned list
C15_Witness ==
    /\ CommandValidated
    /\ Len(cli.errors) >= 2
    /\ Len(cli.warnings) >= 2
    /\ cli.printed = Diags

\* C16: the validate command exits with code 2 iff the manifest file does not
\* exist, with code 1 iff the file exists and fails to parse or load or
\* validate_manifest returns an ERROR, and with code 0 otherwise (warnings
\* alone exit 0); the "valid" field of the JSON output is true exactly when
\* the exit code is 0.
C16_ExitCodes ==
    pc = "exited" =>
        /\ cli.exit_code \in {0, 1, 2}
        /\ (cli.exit_code = 2) <=> ~cli.file_exists
        /\ (cli.exit_code = 1) <=>
               /\ cli.file_exists
               /\ \/ ~cli.yaml_parses
                  \/ model_validate_raises(manifest, Val(raw_data))
                  \/ \E k \in DOMAIN Diags : Diags[k].severity = "ERROR"
        /\ cli.json_output => ((cli.json_valid = "true") <=> (cli.exit_code = 0))

\* warnings alone: exit code 0 and "valid": true
C16_Witness ==
    /\ CommandValidated
    /\ cli.json_output
    /\ cli.warnings # <<>>
    /\ cli.errors = <<>>
    /\ cli.exit_code = 0
    /\ cli.json_valid = "true"

\* both registry functions have been applied
Derived == pc = "registry" /\ registry.called = {"derive_key_sets", "derive_concepts"}

\* C17: derive_key_sets and derive_concepts give the same set for a manifest
\* and for every reordering of its frames and of the hooks within a frame,
\* and the manifest they were given is the same afterwards.
C17_OrderInvariant ==
    Derived =>
        /\ registry.key_sets = registry.key_sets_reordered
        /\ registry.concepts = registry.concepts_reordered
        /\ manifest = registry.given

C17_Witness ==
    /\ Derived
    /\ Len(manifest.frames) >= 2
    /\ registry.reordered.frames[1] # manifest.frames[1]
    /\ \E k \in DOMAIN manifest.frames :
           /\ Len(HooksOf(manifest.frames[k])) >= 2
           /\ \A j \in DOMAIN registry.reordered.frames :
                  registry.reordered.frames[j] # manifest.frames[k]
    /\ Cardinality(registry.key_sets) >= 3
    /\ Cardinality(registry.concepts) >= 2

\* the hooks of all frames, as (frame, hook) positions
RegistryPositions ==
    {p \in (DOMAIN manifest.frames) \X (1 .. MaxRegistryHooks + 1) :
        p[2] \in DOMAIN HooksOf(manifest.frames[p[1]])}

HookOf(p) == HooksOf(manifest.frames[p[1]])[p[2]]

\* a segment that is present: non-null and non-empty
PresentSegment(v) == v # None /\ Val(v) # <<>>

\* CONCEPT[~QUALIFIER]@SOURCE[~TENANT]
KeySetString(hook) ==
    Flatten(<<Upper(Val(hook.concept)),
              IF PresentSegment(hook.qualifier)
              THEN <<"~">> \o Upper(Val(hook.qualifier)) ELSE <<>>,
              <<"@">>,
              Upper(Val(hook.source)),
              IF PresentSegment(hook.tenant)
              THEN <<"~">> \o Upper(Val(hook.tenant)) ELSE <<>> >>)

\* C18: derive_key_sets returns exactly the strings
\* CONCEPT[~QUALIFIER]@SOURCE[~TENANT] of the hooks of all frames, where a
\* qualifier or tenant segment appears only when it is non-null and
\* non-empty, and equal strings of different hooks are one element.
C18_KeySetComposition ==
    Derived =>
        /\ \A p \in RegistryPositions : build_key_set(HookOf(p)) = KeySetString(HookOf(p))
        /\ registry.key_sets = {KeySetString(HookOf(p)) : p \in RegistryPositions}

C18_Witness ==
    /\ Derived
    /\ \E p, q \in RegistryPositions :
           /\ p[1] # q[1]
           /\ HookOf(p) # HookOf(q)
           /\ KeySetString(HookOf(p)) = KeySetString(HookOf(q))
    /\ \E p \in RegistryPositions : HookOf(p).qualifier = Some(<<>>)
    /\ \E p \in RegistryPositions :
           PresentSegment(HookOf(p).qualifier) /\ PresentSegment(HookOf(p).tenant)
    /\ Cardinality(registry.key_sets) < Cardinality(RegistryPositions)
    /\ Cardinality(registry.key_sets) >= 2

\* a segment of a hook name: it starts with a lower-case letter, continues
\* with lower-case letters, digits and single underscores, and does not end
\* with an underscore
NameSegment(t) ==
    /\ t # <<>>
    /\ t[1] \in Range(LowerLetters)
    /\ \A k \in DOMAIN t : t[k] \in Lower09 \cup {"_"}
    /\ t[Len(t)] # "_"
    /\ \A k \in 1 .. Len(t) - 1 : ~(t[k] = "_" /\ t[k + 1] = "_")

\* prefix, concept segment, at most one "__" and qualifier segment
Decomposes(s) ==
    \E prefix \in {S_hk_prefix, S_wk_prefix} :
        /\ Len(s) > Len(prefix)
        /\ SubSeq(s, 1, Len(prefix)) = prefix
        /\ \E rest \in {SubSeq(s, Len(prefix) + 1, Len(s))} :
               \/ NameSegment(rest)
               \/ \E k \in 1 .. Len(rest) - 1 :
                      /\ rest[k] = "_"
                      /\ rest[k + 1] = "_"
                      /\ NameSegment(SubSeq(rest, 1, k - 1))
                      /\ NameSegment(SubSeq(rest, k + 2, Len(rest)))

\* C19: is_valid_hook_name(s) is true exactly when s is a prefix _hk__ or
\* _wk__, a concept segment and at most one qualifier segment introduced by
\* "__", with nothing before or after.
C19_HookNameIffDecomposes ==
    normalization.hook_name # None =>
        (Val(normalization.hook_name) <=> Decomposes(normalization.s))

\* a non-empty run of decimal digits
DigitRun(t) == t # <<>> /\ \A k \in DOMAIN t : t[k] \in Range(DigitChars)

\* three runs of digits separated by single dots, and nothing else
ThreeDigitRuns(v) ==
    \E a, b \in DOMAIN v :
        /\ a < b
        /\ v[a] = "."
        /\ v[b] = "."
        /\ DigitRun(SubSeq(v, 1, a - 1))
        /\ DigitRun(SubSeq(v, a + 1, b - 1))
        /\ DigitRun(SubSeq(v, b + 1, Len(v)))

\* C20: is_valid_semver(s) is true exactly when s is three non-empty runs of
\* digits separated by single dots and nothing else, and MANIFEST-001 and
\* MANIFEST-002 are reported exactly when manifest_version and
\* schema_version fail that.
C20_SemverIffThreeDigitRuns ==
    /\ normalization.semver # None =>
           (Val(normalization.semver) <=> ThreeDigitRuns(normalization.s))
    /\ pc = "versions_validated" /\ ~result.raised =>
           /\ CountRule(RID_MANIFEST_001) >= 1 <=> ~ThreeDigitRuns(manifest.manifest_version)
           /\ CountRule(RID_MANIFEST_002) >= 1 <=> ~ThreeDigitRuns(manifest.schema_version)

\* the hook's name starts with the weak-hook prefix
UsesWeakPrefix(hook) ==
    /\ hook.name # None
    /\ Len(Val(hook.name)) >= Len(S_wk_prefix)
    /\ SubSeq(Val(hook.name), 1, Len(S_wk_prefix)) = S_wk_prefix

\* the declared concepts whose name is the hook's concept
Matching(hook) ==
    {k \in DOMAIN manifest.concepts : Some(manifest.concepts[k].name) = hook.concept}

\* C21 as stated: with warnings enabled, HOOK-W01 is reported for a hook
\* exactly when its name uses the weak prefix and a declared concept of the
\* hook's concept has is_weak = false, and never when a declared concept of
\* the hook's concept has is_weak = true.
C21_WeakMismatchIffReported ==
    Returns /\ include_warnings =>
        \A h \in AllHooks :
            /\ CountAt(RID_HOOK_W01, PathOf(h)) >= 1
                   <=> /\ UsesWeakPrefix(HookAt(h))
                       /\ \E k \in Matching(HookAt(h)) : ~manifest.concepts[k].is_weak
            /\ (\E k \in Matching(HookAt(h)) : manifest.concepts[k].is_weak)
                   => CountAt(RID_HOOK_W01, PathOf(h)) = 0

\* C21 (amended): with warnings enabled, HOOK-W01 is reported, once, for a
\* hook exactly when its name uses the weak prefix and the first declared
\* concept of the hook's concept has is_weak = false.
C21_FirstMatchDecides ==
    Returns /\ include_warnings =>
        \A h \in AllHooks :
            /\ CountAt(RID_HOOK_W01, PathOf(h)) <= 1
            /\ CountAt(RID_HOOK_W01, PathOf(h)) = 1
                   <=> /\ UsesWeakPrefix(HookAt(h))
                       /\ Matching(HookAt(h)) # {}
                       /\ \E k \in Matching(HookAt(h)) :
                              /\ \A l \in Matching(HookAt(h)) : k <= l
                              /\ ~manifest.concepts[k].is_weak

C21_Witness ==
    /\ Returns
    /\ include_warnings
    /\ \E h \in AllHooks :
           /\ CountAt(RID_HOOK_W01, PathOf(h)) = 1
           /\ Cardinality(Matching(HookAt(h))) = 2
           /\ \E k \in Matching(HookAt(h)) : manifest.concepts[k].is_weak
    /\ \E h \in AllHooks :
           /\ CountAt(RID_HOOK_W01, PathOf(h)) = 0
           /\ ~UsesWeakPrefix(HookAt(h))
           /\ \E k \in Matching(HookAt(h)) : ~manifest.concepts[k].is_weak

\* frame i names the value v as its relation or as its path
NamesValue(i, v) ==
    /\ manifest.frames[i].source # None
    /\ \/ Val(manifest.frames[i].source).relation = Some(v)
       \/ Val(manifest.frames[i].source).path = Some(v)

\* the source value of frame i is v: its relation, or its path when it has no
\* relation or an empty one
HasSourceValue(i, v) ==
    /\ manifest.frames[i].source # None
    /\ \A source \in {Val(manifest.frames[i].source)} :
           IF source.relation # None /\ Val(source.relation) # <<>>
           THEN source.relation = Some(v)
           ELSE source.path = Some(v)

\* the non-empty values that the frames name
SourceValues ==
    {v \in {REL_r_a, REL_r_b} : \E i \in DOMAIN manifest.frames : NamesValue(i, v)}

\* the names of the frames in users, in declaration order
NamesInOrder(users) ==
    Flatten([i \in DOMAIN manifest.frames |->
                IF i \in users THEN <<manifest.frames[i].name>> ELSE <<>>])

\* the FRAME-W02 warnings for value v that list the frames in users
CountShared(v, users) ==
    Cardinality({k \in DOMAIN Diags :
        /\ Diags[k].rule_id = RID_FRAME_W02
        /\ Diags[k].severity = "WARN"
        /\ Diags[k].message =
               Text("Source '{0}' is used by multiple frames: {1}",
                    <<v, Join(NamesInOrder(users), S_comma_space)>>)})

\* C22 as stated: with warnings enabled there is exactly one FRAME-W02 for
\* each non-empty value that two or more frames name as relation or path,
\* listing those frames in declaration order, and none for other values.
C22_OnePerSharedValue ==
    Returns /\ include_warnings =>
        /\ \A v \in SourceValues :
               \A users \in {{i \in DOMAIN manifest.frames : NamesValue(i, v)}} :
                   CountShared(v, users) = IF Cardinality(users) >= 2 THEN 1 ELSE 0
        /\ CountRule(RID_FRAME_W02) =
               Cardinality({v \in SourceValues :
                   Cardinality({i \in DOMAIN manifest.frames : NamesValue(i, v)}) >= 2})

\* C22 (amended): the source value of a frame is its relation, or its path
\* when the relation is absent or empty; with warnings enabled there is
\* exactly one FRAME-W02 for each non-empty source value of two or more
\* frames, listing those frames in declaration order, and none otherwise.
C22_OnePerSharedSourceValue ==
    Returns /\ include_warnings =>
        /\ \A v \in SourceValues :
               \A users \in {{i \in DOMAIN manifest.frames : HasSourceValue(i, v)}} :
                   CountShared(v, users) = IF Cardinality(users) >= 2 THEN 1 ELSE 0
        /\ CountRule(RID_FRAME_W02) =
               Cardinality({v \in SourceValues :
                   Cardinality({i \in DOMAIN manifest.frames : HasSourceValue(i, v)}) >= 2})

C22_Witness ==
    /\ Returns
    /\ include_warnings
    /\ CountRule(RID_FRAME_W02) = 1
    /\ \E v, w \in SourceValues :
           /\ Cardinality({i \in DOMAIN manifest.frames : HasSourceValue(i, v)}) >= 3
           /\ Cardinality({i \in DOMAIN manifest.frames : HasSourceValue(i, w)}) = 1
           /\ CountShared(v, {i \in DOMAIN manifest.frames : HasSourceValue(i, v)}) = 1

\* 1 when the condition holds, else 0
Once(condition) == IF condition THEN 1 ELSE 0

\* the frames that satisfy a condition on their source
FramesWhere(Cond(_)) ==
    Cardinality({i \in DOMAIN manifest.frames : Cond(manifest.frames[i].source)})

SourceAbsent(source) == source = None

BothOrNeither(source) ==
    /\ source # None
    /\ (Val(source).relation # None) <=> (Val(source).path # None)

EmptyRelation(source) == source # None /\ Val(source).relation = Some(<<>>)

EmptyPath(source) == source # None /\ Val(source).path = Some(<<>>)

\* C25: for every frame, an absent source is reported by FRAME-004 alone; a
\* present source gets no FRAME-004, one FRAME-005 exactly when both or
\* neither of relation and path are set, and one FRAME-006 for each of
\* relation and path that is the empty string.
C25_SourceRulesConsistent ==
    Returns =>
        /\ \A i \in DOMAIN manifest.frames :
               \A source \in {manifest.frames[i].source} :
                   /\ CountAt(RID_FRAME_004, FramePath(i) \o S_dot_source)
                          = Once(SourceAbsent(source))
                   /\ CountAt(RID_FRAME_005, FramePath(i) \o S_dot_source)
                          = Once(BothOrNeither(source))
                   /\ CountAt(RID_FRAME_006, FramePath(i) \o S_dot_source_relation)
                          = Once(EmptyRelation(source))
                   /\ CountAt(RID_FRAME_006, FramePath(i) \o S_dot_source_path)
                          = Once(EmptyPath(source))
        /\ CountRule(RID_FRAME_004) = FramesWhere(SourceAbsent)
        /\ CountRule(RID_FRAME_005) = FramesWhere(BothOrNeither)
        /\ CountRule(RID_FRAME_006) = FramesWhere(EmptyRelation) + FramesWhere(EmptyPath)

C25_Witness ==
    /\ Returns
    /\ Len(manifest.frames) >= 2
    /\ FramesWhere(BothOrNeither) = 2
    /\ \E i \in DOMAIN manifest.frames :
           /\ EmptyRelation(manifest.frames[i].source)
           /\ EmptyPath(manifest.frames[i].source)
           /\ CountAt(RID_FRAME_005, FramePath(i) \o S_dot_source) = 1
    /\ CountRule(RID_FRAME_006) = 3

\* the frame has at least one hook and none of its hooks is primary
OnlyOtherRoles(frame) == HooksOf(frame) # <<>> /\ NoPrimaryHook(frame)

\* C26: validate_manifest never returns FRAME-W01, with or without warnings;
\* a frame with hooks and no primary hook gets FRAME-003 as an ERROR from
\* it; warn_no_primary_only_foreign called on its own returns one FRAME-W01
\* warning exactly when the frame has at least one hook and none is primary.
C26_FrameW01NotWired ==
    /\ (pc = "validated" /\ ~result.raised) =>
           /\ CountRule(RID_FRAME_W01) = 0
           /\ \A i \in DOMAIN manifest.frames :
                  OnlyOtherRoles(manifest.frames[i]) =>
                      \E k \in DOMAIN Diags :
                          /\ Diags[k].rule_id = RID_FRAME_003
                          /\ Diags[k].severity = "ERROR"
                          /\ Diags[k].path = FramePath(i) \o S_dot_hooks
    /\ frame_warning.called =>
           \A direct \in {frame_warning.diagnostics} :
               IF OnlyOtherRoles(manifest.frames[frame_warning.frame])
               THEN /\ Len(direct) = 1
                    /\ direct[1].rule_id = RID_FRAME_W01
                    /\ direct[1].severity = "WARN"
                    /\ direct[1].path = FramePath(frame_warning.frame) \o S_dot_hooks
               ELSE direct = <<>>

C26_Witness ==
    /\ pc = "validated"
    /\ ~result.raised
    /\ include_warnings
    /\ frame_warning.called
    /\ Len(HooksOf(manifest.frames[frame_warning.frame])) >= 2
    /\ Len(frame_warning.diagnostics) = 1
    /\ CountAt(RID_FRAME_003, FramePath(frame_warning.frame) \o S_dot_hooks) = 1
    /\ CountRule(RID_FRAME_W01) = 0

\* C29: two manifests that differ in settings only get diagnostics with the
\* same rule_ids, severities, paths and messages; only the fix of HOOK-002
\* may differ.
C29_SettingsIndependent ==
    (pc = "both_settings" /\ ~result.raised /\ ~result2.raised) =>
        /\ Len(result.diagnostics) = Len(result2.diagnostics)
        /\ \A k \in DOMAIN result.diagnostics :
               \A d \in {result.diagnostics[k]} : \A e \in {result2.diagnostics[k]} :
                   /\ d.rule_id = e.rule_id
                   /\ d.severity = e.severity
                   /\ d.path = e.path
                   /\ d.message = e.message
                   /\ d.rule_id # RID_HOOK_002 => d.fix = e.fix

C29_Witness ==
    /\ pc = "both_settings"
    /\ ~result.raised
    /\ ~result2.raised
    /\ manifest.settings = CustomSettings
    /\ other_settings = DefaultSettings
    /\ HooksOf(manifest.frames[1])[2].name = Some(N_custom_a)
    /\ \E k \in DOMAIN result.diagnostics :
           /\ result.diagnostics[k].rule_id = RID_HOOK_002
           /\ result.diagnostics[k].fix # result2.diagnostics[k].fix

\* HOOK-004 and HOOK-005 report nothing for the hook
PassesConceptAndSource(hook) ==
    /\ validate_hook_concept(hook, <<>>) = <<>>
    /\ validate_hook_source(hook, <<>>) = <<>>

\* absent and empty are alike
Segment(v) == IF v = Some(<<>>) THEN None ELSE v

KeyTuple(hook) == <<hook.concept, Segment(hook.qualifier), hook.source, Segment(hook.tenant)>>

\* C30: two hooks without HOOK-004 and HOOK-005 errors have the same key-set
\* string exactly when they agree in concept, qualifier, source and tenant,
\* absent and empty being alike; when no hook of the manifest has such an
\* error, derive_key_sets has as many elements as the hooks have distinct
\* tuples.
C30_InjectiveOnValidHooks ==
    Derived =>
        \A passing \in {{p \in RegistryPositions : PassesConceptAndSource(HookOf(p))}} :
            /\ \A p, q \in passing :
                   build_key_set(HookOf(p)) = build_key_set(HookOf(q))
                       <=> KeyTuple(HookOf(p)) = KeyTuple(HookOf(q))
            /\ passing = RegistryPositions =>
                   Cardinality(registry.key_sets)
                       = Cardinality({KeyTuple(HookOf(p)) : p \in RegistryPositions})

C30_Witness ==
    /\ Derived
    /\ \A p \in RegistryPositions : PassesConceptAndSource(HookOf(p))
    /\ \E p, q \in RegistryPositions :
           /\ HookOf(p) # HookOf(q)
           /\ KeyTuple(HookOf(p)) = KeyTuple(HookOf(q))
           /\ HookOf(p).qualifier # HookOf(q).qualifier
    /\ \E p \in RegistryPositions : Truthy(HookOf(p).tenant)
    /\ Cardinality(registry.key_sets) = 2
    /\ Cardinality(RegistryPositions) = 3

\* the rules of the levels "frame" and "hook"
FrameRuleIds ==
    {RID_FRAME_001, RID_FRAME_002, RID_FRAME_003, RID_FRAME_004, RID_FRAME_005,
     RID_FRAME_006, RID_FRAME_W01, RID_FRAME_W03, RID_HOOK_007}

HookRuleIds ==
    {RID_HOOK_001, RID_HOOK_002, RID_HOOK_003, RID_HOOK_004, RID_HOOK_005,
     RID_HOOK_006, RID_HOOK_W01}

\* the zero-based locators of the i-th frame, of its j-th hook and of the
\* k-th concept
FrameLocator(i) == S_frames_open \o IntToStr(i - 1) \o S_close

HookLocator(i, j) == FrameLocator(i) \o <<".">> \o <<"h","o","o","k","s","[">> \o IntToStr(j - 1) \o S_close

ConceptLocator(k) == S_concepts_open \o IntToStr(k - 1) \o S_close

\* path is the locator or a field below it
AtOrBelow(path, locator) == path = locator \/ StartsWith(path, locator \o <<".">>)

Below(path, locator) == StartsWith(path, locator \o <<".">>)

\* path has a segment hooks[...]
ContainsHooksIndex(path) ==
    \E k \in DOMAIN path :
        StartsWith(SubSeq(path, k, Len(path)), <<"h","o","o","k","s","[">>)

\* what the hook-level diagnostics at the hook's locator say
SaidAt(i, j) ==
    {<<Diags[k].rule_id, Diags[k].message>> :
        k \in {l \in DOMAIN Diags : /\ Diags[l].rule_id \in HookRuleIds
                                    /\ AtOrBelow(Diags[l].path, HookLocator(i, j))}}

\* what the hook rules say about one hook
SaidAbout(hook) ==
    {<<d.rule_id, d.message>> :
        d \in {HookLevel(manifest, hook, <<>>, include_warnings)[k] :
                  k \in DOMAIN HookLevel(manifest, hook, <<>>, include_warnings)}}

\* C28: the path of a diagnostic of a frame or hook rule is at or below
\* frames[i] for a frame i of the manifest, and when it has a hooks[j] segment
\* it is at or below frames[i].hooks[j] for a hook j of frame i; the path of
\* CONCEPT-001 and CONCEPT-003 is at or below concepts[k] for a declared
\* concept k; the hook-level diagnostics at frames[i].hooks[j] are those the
\* hook rules give for that hook.
C28_PathsLocate ==
    Returns =>
        /\ \A d \in DOMAIN Diags :
               Diags[d].rule_id \in FrameRuleIds \cup HookRuleIds =>
                   \E i \in DOMAIN manifest.frames :
                       /\ Below(Diags[d].path, FrameLocator(i))
                       /\ ContainsHooksIndex(Diags[d].path) =>
                              \E j \in DOMAIN HooksOf(manifest.frames[i]) :
                                  AtOrBelow(Diags[d].path, HookLocator(i, j))
                       /\ Diags[d].rule_id \in HookRuleIds =>
                              ContainsHooksIndex(Diags[d].path)
        /\ \A d \in DOMAIN Diags :
               Diags[d].rule_id \in {RID_CONCEPT_001, RID_CONCEPT_003} =>
                   \E k \in DOMAIN manifest.concepts :
                       AtOrBelow(Diags[d].path, ConceptLocator(k))
        /\ \A i \in DOMAIN manifest.frames :
               \A j \in DOMAIN HooksOf(manifest.frames[i]) :
                   SaidAt(i, j) = SaidAbout(HooksOf(manifest.frames[i])[j])

C28_Witness ==
    /\ Returns
    /\ Len(manifest.frames) = 2
    /\ Len(manifest.concepts) = 2
    /\ \E j, l \in DOMAIN HooksOf(manifest.frames[2]) :
           /\ j < l
           /\ SaidAt(2, j) # {}
           /\ SaidAt(2, l) # {}
           /\ SaidAt(2, j) # SaidAt(2, l)
    /\ \E d \in DOMAIN Diags :
           /\ Diags[d].rule_id = RID_HOOK_007
           /\ Below(Diags[d].path, HookLocator(2, 2))
    /\ \E d \in DOMAIN Diags :
           /\ Diags[d].rule_id \in {RID_CONCEPT_001, RID_CONCEPT_003}
           /\ AtOrBelow(Diags[d].path, ConceptLocator(2))

\* C24: the manifest built from a lower_snake_case --concept and an
\* UPPER_SNAKE_CASE --source validates without an ERROR diagnostic.
C24_FlagsManifestValid ==
    pc = "flags_validated" /\ flags.built =>
        /\ ~result.raised
        /\ ~has_errors(result.diagnostics)

\* no underscore ends the concept or follows another
PlainSegments(concept) ==
    /\ concept[Len(concept)] # "_"
    /\ \A k \in 1 .. Len(concept) - 1 : ~(concept[k] = "_" /\ concept[k + 1] = "_")

\* the built manifest validates without an ERROR when no underscore ends the
\* concept or follows another; otherwise HOOK-002 is among the errors unless
\* a single double underscore reads as the start of a qualifier
C24_ValidWhenPlainSegments ==
    pc = "flags_validated" /\ flags.built =>
        /\ ~result.raised
        /\ PlainSegments(flags.concept) => ~has_errors(result.diagnostics)
        /\ has_errors(result.diagnostics) =>
               \A k \in DOMAIN result.diagnostics :
                   result.diagnostics[k].severity = "ERROR" =>
                       result.diagnostics[k].rule_id = RID_HOOK_002

\* the complete frames that have been added to the wizard state
AddedComplete ==
    IF IsNone(wizard.state) THEN <<>> ELSE CompleteFrames(Val(wizard.state).frames)

\* the draft that lists the frames
DraftOf(frames) ==
    [kind |-> "draft",
     content |-> [manifest_version |-> V_1_0_0,
                  schema_version |-> V_1_0_0,
                  frames |-> [k \in DOMAIN frames |->
                                 [name |-> frames[k].name,
                                  source |-> <<frames[k].source_type, frames[k].source_value>>,
                                  hooks |-> frames[k].hooks]],
                  _wizard_meta |-> [current_step |-> Val(wizard.state).current_step,
                                    is_complete |-> Val(wizard.state).is_complete]]]

OutputWritten == wizard.files[wizard.output_path] # wizard.files_before[wizard.output_path]

\* C23: after a no to "Overwrite?" the command has ended and no file has
\* changed; after a no to "Write manifest?" no file has changed; the output
\* file is changed only after a yes to "Write manifest?" and, when it existed,
\* a yes to "Overwrite?".
C23_WrittenOnlyAfterConfirmation ==
    pc = "wizard" =>
        /\ wizard.overwrite = "no" =>
               wizard.exit_code = 0 /\ wizard.files = wizard.files_before
        /\ wizard.write = "no" =>
               wizard.exit_code = 0 /\ wizard.files = wizard.files_before
        /\ OutputWritten =>
               /\ wizard.write = "yes"
               /\ wizard.files_before[wizard.output_path] # NoFile => wizard.overwrite = "yes"

\* the same, the output file not being the draft file
C23_ConfirmedUnlessDraftFile ==
    pc = "wizard" /\ wizard.output_path # DRAFT_FILE => C23_WrittenOnlyAfterConfirmation

\* the output file is the manifest of the added frames once both prompts are
\* answered yes
C23_ConfirmedWrite ==
    /\ pc = "wizard"
    /\ wizard.output_path # DRAFT_FILE
    /\ wizard.overwrite = "yes"
    /\ wizard.write = "yes"
    /\ wizard.exit_code = 0
    /\ OutputWritten
    /\ wizard.files[wizard.output_path].kind = "manifest"

====
